---------------------------- MODULE Spec2Model ----------------------------
(***************************************************************************)
(* Verification model of the Smart_sity traffic-signal research harness.   *)
(*                                                                         *)
(* Part 1: the Accident Injection Manager (scripts/utils/accident_utils.py *)
(*         and its twin scripts/utils_traci/accident_utils.py) together    *)
(*         with the part of the simulator it reads and writes through the  *)
(*         simulation protocol (lane max speed, lane permissions, vehicles,*)
(*         points of interest, simulation time).                           *)
(* Part 2: the interactive session (scripts/start_sim_gui.py): the HTTP    *)
(*         command API, the command queue and the simulation step loop.    *)
(* Part 3: the remote control bot (scripts/accident_bot.py).               *)
(* Part 4: the Q-learning module (scripts/utils/q_learning.py).            *)
(* Part 5: the reward metrics cache (scripts/utils/metrics_cache.py).      *)
(* Part 6: the protocol call wrapper (scripts/utils/safe_traci.py).        *)
(* Part 7: the training orchestrator (scripts/learn_agents.py).            *)
(* Part 8: the phase duration adjustment (scripts/utils/sumo_utils.py).    *)
(* Part 9: the policy replay (scripts/test_agents.py).                     *)
(* Part 10: the agent part of the training step loop (learn_agents.py).    *)
(***************************************************************************)
EXTENDS Integers, Sequences, FiniteSets, TLC

(***************************************************************************)
(* Bounds of the model.                                                    *)
(***************************************************************************)
\* largest simulation time / step index explored
MaxTime == 1
\* min_duration_steps and max_duration_steps of the manager under test
MinDur == 1
MaxDur == 2
\* largest max_concurrent the manager is constructed with
MaxN == 2
\* number of obstacle vehicles the manager may try to spawn (caps _veh_seq)
MaxVehSeq == 1
\* commands created in one interactive session
MaxCmds == 3
\* NUM_EPISODES of the training script, capped
MaxEpisodes == 2
\* MAX_SIMULATION_STEPS of the interactive session
MaxSteps == 3
\* updates handled by the bot
MaxUpdates == 3
\* steps a phase of the signal program lasts
PhaseLength == 2
\* reward units in 0.25, and epsilon units in 0.01
QuarterUnits == 25
HundredthUnits == 1000
\* update_q_table calls made on one agent
MaxQUpdates == 1
\* update_from_subscriptions calls made on one cache
MaxRefreshes == 2
\* update_from_subscriptions calls in a run that follows the waiting cache
MaxWaitCalls == 5
\* set_phase_duration_for_new_phase calls followed
MaxPhaseCalls == 1
\* MAX_SIMULATION_STEPS of the training script where the agent part of its
\* step loop is followed, capped
MaxTrainSteps == 2
\* phase changes of the signal followed in one training run
MaxTrainChoices == 2
\* safe_traci_call calls made
MaxSafeCalls == 2

(***************************************************************************)
(* The road network seen through the simulation protocol.                  *)
(***************************************************************************)
\* lane ids handed to the manager and to its on-demand API; "X_9" does not
\* exist in the network, ":J_0" lies on an internal junction edge
LaneIds == {"E1_0", "E1_1", ":J_0", "X_9"}
ExistingLanes == {"E1_0", "E1_1", "E2_0", ":J_0"}
EdgeIds == {"E1", "E2", ":J"}
VClasses == {"passenger", "bus", "truck"}
\* vehicle classes in use by the scenario (argument used_vclasses)
UsedVClasses == {"passenger", "bus"}

\* traci.lane.getEdgeID, for an existing lane
EdgeOf(l) ==
    CASE l = "E1_0" -> "E1"
      [] l = "E1_1" -> "E1"
      [] l = "E2_0" -> "E2"
      [] l = ":J_0" -> ":J"

\* traci.edge.getLaneNumber, for an existing edge
LaneNumber(e) ==
    CASE e = "E1" -> 2
      [] e = "E2" -> 1
      [] e = ":J" -> 1

\* str.startswith(":") on an edge id
StartsWithColon_Never(e) == FALSE
StartsWithColon(e) == e = ":J"

\* AccidentManager._lane_exists: getLength succeeds
LaneExists(l) == l \in ExistingLanes

\* AccidentManager._edge_exists / getLaneNumber succeeds
EdgeExists(e) == e \in EdgeIds

\* AccidentManager._lane_index_from_id: int(lane_id.rsplit("_", 1)[1]), 0 on failure
LaneIndexFromId(l) ==
    CASE l = "E1_0" -> 0
      [] l = "E1_1" -> 1
      [] l = "E2_0" -> 0
      [] l = ":J_0" -> 0
      [] l = "X_9" -> 9
      [] OTHER -> 0

\* AccidentManager.__init__: the candidate filter over the lane list
LaneCandidates ==
    {l \in LaneIds : LaneExists(l) /\ ~StartsWithColon(EdgeOf(l))}

\* the signal of the network and the phase indices of its program
TlsId == "T1"
PhaseIndices == {0, 1}
\* the program of the signal as long as no phase duration is set: every
\* phase lasts PhaseLength steps
PhaseAt(t) == IF (t \div PhaseLength) % 2 = 0 THEN 0 ELSE 1

\* initial lane state of the scenario
InitLaneSpeed == [l \in ExistingLanes |-> IF l = "E2_0" THEN 8 ELSE 13]
InitLaneAllowed ==
    [l \in ExistingLanes |-> IF l = "E2_0" THEN {"passenger", "truck"} ELSE VClasses]

(***************************************************************************)
(* State.                                                                  *)
(***************************************************************************)
VARIABLES
    \* --- AccidentManager fields ---
    mode,            \* self.mode
    prob,            \* self.prob, in tenths
    max_concurrent,  \* self.max_concurrent
    enable_markers,  \* self.enable_markers
    active,          \* self.active: lane_id -> Accident
    veh_seq,         \* self._veh_seq
    \* --- simulator state reached through the protocol ---
    laneSpeed,       \* lane -> max speed
    laneAllowed,     \* lane -> set of permitted vehicle classes
    vehicles,        \* ids of the vehicles the manager added and that still exist
    pois,            \* ids of the existing points of interest
    simTime,         \* traci.simulation.getTime()
    \* --- history ---
    everOverride,    \* some create_accident_at used ignore_max_concurrent=True
    \* --- interactive session (start_sim_gui.py) ---
    command_queue,   \* command_queue: the queued command objects, oldest first
    enq_count,       \* number of command objects created so far
    applied,         \* the commands handed to the accident manager, in order
    loop_pc,         \* where the main thread is in its step loop
    step,            \* the loop variable of the step loop
    drain_mark,      \* enq_count when the current process_commands call began
    connected,       \* the protocol connection is open
    \* --- bot (accident_bot.py) ---
    bot_last,        \* the last update handled and what its handler did
    bot_sent_for,    \* users on whose behalf a state-changing POST was sent
    bot_handled,     \* number of updates handled
    \* --- traffic signal seen by the interactive session ---
    tls_phase,       \* traci.trafficlight.getPhase of the signal
    last_phase_idx,  \* last_phase_idx[tls_id] of the step loop
    phase_calls,     \* the setPhaseDuration calls made so far, in order
    \* --- QLearningAgent (utils/q_learning.py) and the files it uses ---
    agent,           \* the constructor's parameters: lr, gamma, epsilon_decay,
                     \* min_epsilon, actions, states
    q_table,         \* self.q_table: state -> (action -> value)
    epsilon,         \* self.epsilon
    disk,            \* file name -> the table saved in that file
    q_ret,           \* the last call made on the module and what it returned
    q_updates,       \* number of update_q_table calls made
    \* --- RewardMetricsCache (utils/metrics_cache.py) ---
    subscribed,      \* self._subscribed
    step_counter,    \* self._step_counter
    lane_stats,      \* self._lane_stats: lane -> readings of the last update
    edge_stats,      \* self._edge_stats: edge -> aggregate of the last update
    waiting_cache,   \* self._waiting_cache: edge -> cached mean waiting time
    subscriptions,   \* the lanes with a subscription in the simulator
    wnow_hist,       \* the per-edge mean waiting times of the simulation at
                     \* each update_from_subscriptions call that returned
    \* --- safe_traci_call (utils/safe_traci.py) ---
    safe_ret,        \* the last call of safe_traci_call and its outcome
    safe_calls,      \* number of safe_traci_call calls made
    \* --- training script (learn_agents.py) ---
    learn_pc,        \* where the script is
    episode,         \* the loop variable of the episode loop
    current_step,    \* the loop variable of the step loop
    enable_accidents,\* ENABLE_ACCIDENTS
    waiting,         \* traci.edge.getWaitingTime of the controlled edges
    last_states,     \* last_states[tls_id]
    last_actions,    \* last_actions[tls_id]
    prev_phase_idx,  \* prev_phase_idx[tls_id]
    transitions,     \* phase changes seen by the step loop in this episode
    persisted,       \* save_q_table calls of the training script
    fatal_raised,    \* the protocol call that raised FatalTraCIError, if any
    evaluated,       \* the points of the script at which the evaluation ran
    learn_error      \* the exception that ended the script, if any

amVars == <<mode, prob, max_concurrent, enable_markers, active, veh_seq,
            laneSpeed, laneAllowed, vehicles, pois, simTime,
            everOverride>>

sessVars == <<command_queue, enq_count, applied, loop_pc, step, drain_mark,
              connected>>

botVars == <<bot_last, bot_sent_for, bot_handled>>

tlsVars == <<tls_phase, last_phase_idx, phase_calls>>

qVars == <<agent, q_table, epsilon, disk, q_ret, q_updates>>

metVars == <<subscribed, step_counter, lane_stats, edge_stats, waiting_cache,
             subscriptions, wnow_hist>>

safeVars == <<safe_ret, safe_calls>>

learnVars == <<learn_pc, episode, current_step, enable_accidents, waiting,
               last_states, last_actions, prev_phase_idx, transitions,
               persisted, fatal_raised, evaluated, learn_error>>

\* the state of the library modules and of the training script
libVars == <<qVars, metVars, safeVars, learnVars>>

vars == <<amVars, sessVars, botVars, tlsVars, libVars>>


(***************************************************************************)
(* The manager's view of the world, as one value, so that the sequential   *)
(* code of a call (expire each, then spawn) can be composed.               *)
(***************************************************************************)
World ==
    [active |-> active, veh_seq |-> veh_seq, laneSpeed |-> laneSpeed,
     laneAllowed |-> laneAllowed, vehicles |-> vehicles, pois |-> pois]

\* Optional[str] ids: the empty value stands for None / ""
NoVeh == <<>>
NoPoi == <<>>

\* dict.pop / dict item assignment on self.active
MapRemove(f, k) == [x \in (DOMAIN f) \ {k} |-> f[x]]
MapPut(f, k, v) == [x \in (DOMAIN f) \cup {k} |-> IF x = k THEN v ELSE f[x]]

\* ---------- protocol calls on lanes ----------
\* traci.lane.getAllowed: the empty list means "all classes allowed"
GetAllowed(w, l) ==
    IF w.laneAllowed[l] = VClasses THEN {} ELSE w.laneAllowed[l]

\* traci.lane.setAllowed: the empty list means "all classes allowed"
SetAllowed(w, l, classes) ==
    [w EXCEPT !.laneAllowed[l] = IF classes = {} THEN VClasses ELSE classes]

\* traci.lane.setDisallowed
SetDisallowed(w, l, classes) ==
    [w EXCEPT !.laneAllowed[l] = VClasses \ classes]

\* traci.lane.setMaxSpeed
SetMaxSpeed(w, l, v) == [w EXCEPT !.laneSpeed[l] = v]

\* AccidentManager._store_prev_state
StorePrevState(w, l) ==
    [prev_max_speed |-> w.laneSpeed[l], prev_allowed |-> GetAllowed(w, l)]

\* AccidentManager._restore_lane_state
RestoreLaneState(w, acc) ==
    IF ~LaneExists(acc.lane_id)
    THEN w
    ELSE SetAllowed(SetMaxSpeed(w, acc.lane_id, acc.prev_max_speed),
                    acc.lane_id, acc.prev_allowed)

\* AccidentManager._apply_lane_block
ApplyLaneBlock(w, l) ==
    IF ~LaneExists(l)
    THEN w
    ELSE LET w1 == SetMaxSpeed(w, l, 0)
         IN  IF UsedVClasses # {} THEN SetDisallowed(w1, l, UsedVClasses) ELSE w1

\* ---------- obstacle vehicles ----------
\* outcomes of AccidentManager._spawn_obstacle: it returns, or it raises before
\* _veh_seq is incremented (lane query, no vClass), or traci.vehicle.add raises
SpawnOutcomes == {"ok", "raise_early", "raise_add"}

\* AccidentManager._spawn_obstacle: [w, ok, veh_id]
SpawnObstacle(w, l, outcome) ==
    LET seq == w.veh_seq + 1
        vid == <<l, simTime, seq>>
    IN  CASE outcome = "raise_early" -> [w |-> w, ok |-> FALSE, veh_id |-> NoVeh]
          [] outcome = "raise_add" ->
                [w |-> [w EXCEPT !.veh_seq = seq], ok |-> FALSE, veh_id |-> NoVeh]
          [] OTHER ->
                [w |-> [w EXCEPT !.veh_seq = seq, !.vehicles = @ \cup {vid}],
                 ok |-> TRUE, veh_id |-> vid]

\* AccidentManager._despawn_obstacle
DespawnObstacle(w, vid) ==
    IF vid \in w.vehicles THEN [w EXCEPT !.vehicles = @ \ {vid}] ELSE w

\* ---------- markers ----------
\* AccidentManager._add_marker: [w, poi_id]; traci.poi.add raises on an id in use
AddMarker(w, l, edge_id) ==
    LET pid == <<edge_id, LaneIndexFromId(l), simTime>>
    IN  IF ~enable_markers
        THEN [w |-> w, poi_id |-> NoPoi]
        ELSE IF pid \notin w.pois
             THEN [w |-> [w EXCEPT !.pois = @ \cup {pid}], poi_id |-> pid]
             ELSE [w |-> w, poi_id |-> NoPoi]

\* AccidentManager._remove_marker
RemoveMarker(w, pid) ==
    IF pid = NoPoi THEN w
    ELSE IF pid \in w.pois THEN [w EXCEPT !.pois = @ \ {pid}] ELSE w

(***************************************************************************)
(* Accident records and the manager's operations, as functions of World.   *)
(***************************************************************************)
\* dataclass Accident (positions and marker coordinates are left out: no
\* decision of the manager reads them)
NewAccident_EndAtDur(l, start, dur, prev) ==
    [lane_id |-> l, start_step |-> start, end_step |-> dur,
     prev_max_speed |-> prev.prev_max_speed, prev_allowed |-> prev.prev_allowed,
     obstacle_veh_id |-> NoVeh, marker_poi_id |-> NoPoi]
NewAccident(l, start, dur, prev) ==
    [lane_id |-> l, start_step |-> start, end_step |-> start + dur,
     prev_max_speed |-> prev.prev_max_speed, prev_allowed |-> prev.prev_allowed,
     obstacle_veh_id |-> NoVeh, marker_poi_id |-> NoPoi]

\* the lane_block branch of a creation: block the lane, then add the marker
LaneBlockBranch(w, acc) ==
    LET w1 == ApplyLaneBlock(w, acc.lane_id)
        m  == AddMarker(w1, acc.lane_id, EdgeOf(acc.lane_id))
    IN  [w |-> m.w, acc |-> [acc EXCEPT !.marker_poi_id = m.poi_id]]

\* the obstacle branch without its except clause's _apply_lane_block
ObstacleBranch_NoBlock(w, acc, outcome) ==
    LET s == SpawnObstacle(w, acc.lane_id, outcome)
    IN  IF s.ok
        THEN LET m == AddMarker(s.w, acc.lane_id, EdgeOf(acc.lane_id))
             IN  [w |-> m.w,
                  acc |-> [acc EXCEPT !.obstacle_veh_id = s.veh_id,
                                      !.marker_poi_id = m.poi_id]]
        ELSE LET m == AddMarker(s.w, acc.lane_id, EdgeOf(acc.lane_id))
             IN  [w |-> m.w, acc |-> [acc EXCEPT !.marker_poi_id = m.poi_id]]

\* the obstacle branch of a creation: spawn the vehicle and mark it, falling
\* back to the lane_block branch when the spawn raises
ObstacleBranch(w, acc, outcome) ==
    LET s == SpawnObstacle(w, acc.lane_id, outcome)
    IN  IF s.ok
        THEN LET m == AddMarker(s.w, acc.lane_id, EdgeOf(acc.lane_id))
             IN  [w |-> m.w,
                  acc |-> [acc EXCEPT !.obstacle_veh_id = s.veh_id,
                                      !.marker_poi_id = m.poi_id]]
        ELSE LaneBlockBranch(s.w, acc)

\* self.active[lane_id] = new_acc
Register(w, acc) == [w EXCEPT !.active = MapPut(@, acc.lane_id, acc)]

\* the clean-up applied to a popped accident, chosen by the manager's mode
DestroyEffects(w, acc) ==
    LET w1 == IF mode = "lane_block"
              THEN RestoreLaneState(w, acc)
              ELSE IF mode = "obstacle" /\ acc.obstacle_veh_id # NoVeh
                   THEN DespawnObstacle(w, acc.obstacle_veh_id)
                   ELSE w
    IN  RemoveMarker(w1, acc.marker_poi_id)

\* pop one accident and clean it up
Close(w, l) == DestroyEffects([w EXCEPT !.active = MapRemove(@, l)], w.active[l])

\* close every lane of a set, one after the other
RECURSIVE CloseEach(_, _)
CloseEach(w, ls) ==
    IF ls = {} THEN w
    ELSE LET l == CHOOSE x \in ls : TRUE
         IN  CloseEach(Close(w, l), ls \ {l})

\* AccidentManager.clear_accident: [w, ret]
ClearAccident_AlwaysTrue(w, l) ==
    [w |-> IF l \in DOMAIN w.active THEN Close(w, l) ELSE w, ret |-> TRUE]
ClearAccident(w, l) ==
    IF l \in DOMAIN w.active
    THEN [w |-> Close(w, l), ret |-> TRUE]
    ELSE [w |-> w, ret |-> FALSE]

\* AccidentManager.clear_all: [w, ret]
ClearAll(w) ==
    [w |-> CloseEach(w, DOMAIN w.active), ret |-> Cardinality(DOMAIN w.active)]

\* AccidentManager.shutdown
Shutdown(w) ==
    LET w1 == CloseEach(w, DOMAIN w.active)
    IN  [w1 EXCEPT !.active = << >>]

\* len(self.active) >= self.max_concurrent
AtLimit_OffByOne(w) == Cardinality(DOMAIN w.active) > max_concurrent
AtLimit(w) == Cardinality(DOMAIN w.active) >= max_concurrent

\* str.lower() on the mode names in use
Lower(m) == IF m = "OBSTACLE" THEN "obstacle" ELSE m

\* the values of create_accident_at's mode argument; "" stands for None
ModeArgs == {"", "lane_block", "obstacle", "OBSTACLE", "bogus"}

\* the ceiling refuses a creation whether or not the call overrides it
CeilingRefuses_Always(w, ignore) == AtLimit(w)

\* (not ignore_max_concurrent) and len(self.active) >= self.max_concurrent
CeilingRefuses(w, ignore) == (~ignore) /\ AtLimit(w)

\* AccidentManager.create_accident_at: [w, ret, acc]
\* durSome/durVal: duration_steps (None when ~durSome); rdur: rng.randint
CreateAccidentAt(w, l, durSome, durVal, rdur, modeArg, ignore, outcome) ==
    LET none == [w |-> w, ret |-> FALSE]
    IN  IF ~LaneExists(l) THEN none
        ELSE IF StartsWithColon(EdgeOf(l)) THEN none
        ELSE IF CeilingRefuses(w, ignore) THEN none
        ELSE IF l \in DOMAIN w.active THEN none
        ELSE
          LET dur      == IF durSome THEN durVal ELSE rdur
              prev     == StorePrevState(w, l)
              new_acc  == NewAccident(l, simTime, dur, prev)
              use_mode == Lower(IF modeArg # "" THEN modeArg ELSE mode)
          IN  IF use_mode = "lane_block"
              THEN LET b == LaneBlockBranch(w, new_acc)
                   IN  [w |-> Register(b.w, b.acc), ret |-> TRUE, acc |-> b.acc]
              ELSE IF use_mode = "obstacle"
              THEN LET b == ObstacleBranch(w, new_acc, outcome)
                   IN  [w |-> Register(b.w, b.acc), ret |-> TRUE, acc |-> b.acc]
              ELSE none

\* AccidentManager._pick_lane: the lanes rng.choice may return
FreeLanes_All(w) == LaneCandidates
FreeLanes(w) == {l \in LaneCandidates : l \notin DOMAIN w.active}

\* the accidents step() closes
ToClose_Late(w, step_idx) == {l \in DOMAIN w.active : step_idx > w.active[l].end_step}
ToClose(w, step_idx) == {l \in DOMAIN w.active : step_idx >= w.active[l].end_step}

\* the values rng.choice(free) can take in a step() call ("" when it is not reached)
StepPicks(w, step_idx) ==
    LET free == FreeLanes(CloseEach(w, ToClose(w, step_idx)))
    IN  IF free = {} THEN {""} ELSE free

\* the draw r misses only when it is above self.prob
ProbMiss_Strict(r) == r > prob

\* if self.rng.random() >= self.prob: return None
ProbMiss(r) == r >= prob

\* AccidentManager.step: [w, spawned]
\* r: rng.random() in tenths; pick: rng.choice; rdur: rng.randint
StepManager(w, step_idx, r, pick, rdur, outcome) ==
    LET w1 == CloseEach(w, ToClose(w, step_idx))
        no == [w |-> w1, spawned |-> ""]
    IN  IF AtLimit(w1) THEN no
        ELSE IF ProbMiss(r) THEN no
        ELSE IF FreeLanes(w1) = {} THEN no
        ELSE
          LET prev    == StorePrevState(w1, pick)
              new_acc == NewAccident(pick, step_idx, rdur, prev)
              b == IF mode = "lane_block"
                   THEN LaneBlockBranch(w1, new_acc)
                   ELSE IF mode = "obstacle"
                        THEN ObstacleBranch(w1, new_acc, outcome)
                        ELSE [w |-> w1, acc |-> new_acc]
          IN  [w |-> Register(b.w, b.acc), spawned |-> pick]

(***************************************************************************)
(* Edge-impact scoring.  Floats are kept exact: severities are in tenths   *)
(* and an impact is the fraction num/den.                                  *)
(***************************************************************************)
\* default severity_lane_block = 1.0 and severity_obstacle = 0.7, in tenths
SeverityLaneBlock == 10
SeverityObstacle == 7

Min(a, b) == IF a <= b THEN a ELSE b
Max(a, b) == IF a >= b THEN a ELSE b

\* severity = severity_lane_block if self.mode == "lane_block" else severity_obstacle
Severity_Swapped(severity_lane_block, severity_obstacle) ==
    IF mode = "lane_block" THEN severity_obstacle ELSE severity_lane_block
Severity(severity_lane_block, severity_obstacle) ==
    IF mode = "lane_block" THEN severity_lane_block ELSE severity_obstacle

\* edges a caller may ask about; "E9" is unknown to the simulator
QueryEdges == {"E1", "E2", "E9"}

\* lane indices of the active accidents lying on edge e
AffectedLaneIndices(w, e) ==
    {LaneIndexFromId(l) : l \in {x \in DOMAIN w.active : LaneExists(x) /\ EdgeOf(x) = e}}

\* AccidentManager.get_edge_impacts: edge -> <<num, den>>, the value num/den
GetEdgeImpacts(w, edge_ids, severity_lane_block, severity_obstacle) ==
    IF DOMAIN w.active = {} \/ edge_ids = {}
    THEN [e \in edge_ids |-> <<0, 1>>]
    ELSE LET severity == Severity(severity_lane_block, severity_obstacle)
             sev == Max(0, Min(10, severity))
         IN  [e \in edge_ids |->
                LET total_lanes == IF EdgeExists(e) THEN Max(1, LaneNumber(e)) ELSE 1
                    affected == Cardinality(AffectedLaneIndices(w, e))
                IN  \* min(1.0, affected / total_lanes) * sev / 10
                    <<Min(total_lanes, affected) * sev, total_lanes * 10>>]

(***************************************************************************)
(* The accident manager driven directly: any interleaving of its public    *)
(* calls and of simulator steps.                                           *)
(***************************************************************************)
\* explicit duration_steps values passed to create_accident_at
CreateDurs == {MinDur}
\* values of rng.random(), in tenths
RandomDraws == {0, 5}

\* assign the manager's and the simulator's variables from a World value
Commit(w) ==
    /\ active' = w.active
    /\ veh_seq' = w.veh_seq
    /\ laneSpeed' = w.laneSpeed
    /\ laneAllowed' = w.laneAllowed
    /\ vehicles' = w.vehicles
    /\ pois' = w.pois

\* the session part of the state when no interactive session is running
SessionIdle ==
    /\ command_queue = << >>
    /\ enq_count = 0
    /\ applied = << >>
    /\ loop_pc = "idle"
    /\ step = 0
    /\ drain_mark = 0
    /\ connected = TRUE

\* the bot part of the state when no bot is running
BotIdle ==
    /\ bot_last = [update |-> [kind |-> "none"]]
    /\ bot_sent_for = {}
    /\ bot_handled = 0

\* the signal part of the state: the signal is in its first phase and no
\* phase duration has been set
TlsIdle ==
    /\ tls_phase = 0
    /\ last_phase_idx = 0
    /\ phase_calls = << >>

\* the agent part of the state when no agent has been constructed
QIdle ==
    /\ agent = [kind |-> "none"]
    /\ q_table = << >>
    /\ epsilon = 0
    /\ disk = << >>
    /\ q_ret = [op |-> "none"]
    /\ q_updates = 0

\* the metrics part of the state when no cache has been constructed
MetIdle ==
    /\ subscribed = FALSE
    /\ step_counter = 0
    /\ lane_stats = << >>
    /\ edge_stats = << >>
    /\ waiting_cache = << >>
    /\ subscriptions = {}
    /\ wnow_hist = << >>

\* no safe_traci_call has been made
SafeIdle ==
    /\ safe_ret = [op |-> "none"]
    /\ safe_calls = 0

\* the training script is not running
LearnIdle ==
    /\ learn_pc = "idle"
    /\ episode = 0
    /\ current_step = 0
    /\ enable_accidents = FALSE
    /\ waiting = << >>
    /\ last_states = << >>
    /\ last_actions = << >>
    /\ prev_phase_idx = << >>
    /\ transitions = 0
    /\ persisted = 0
    /\ fatal_raised = "none"
    /\ evaluated = {}
    /\ learn_error = "none"

LibIdle == QIdle /\ MetIdle /\ SafeIdle /\ LearnIdle

\* a manager nobody calls
ManagerIdle ==
    /\ mode = "obstacle"
    /\ prob = 0
    /\ max_concurrent = 1
    /\ enable_markers = FALSE
    /\ active = << >>
    /\ veh_seq = 0
    /\ laneSpeed = InitLaneSpeed
    /\ laneAllowed = InitLaneAllowed
    /\ vehicles = {}
    /\ pois = {}
    /\ simTime = 0
    /\ everOverride = FALSE

InitManager ==
    /\ mode \in {"lane_block", "obstacle"}
    /\ prob = 5
    /\ max_concurrent \in {1, MaxN}
    /\ enable_markers = TRUE
    /\ active = << >>
    /\ veh_seq = 0
    /\ laneSpeed = InitLaneSpeed
    /\ laneAllowed = InitLaneAllowed
    /\ vehicles = {}
    /\ pois = {}
    /\ simTime = 0
    /\ everOverride = FALSE

\* traci.simulationStep(): simulation time advances by one step
SimulationStep ==
    /\ simTime < MaxTime
    /\ simTime' = simTime + 1
    /\ UNCHANGED <<mode, prob, max_concurrent, enable_markers, active, veh_seq,
                   laneSpeed, laneAllowed, vehicles, pois, everOverride>>
    /\ UNCHANGED <<sessVars, botVars, tlsVars, libVars>>

\* the (duration_steps given, duration_steps, rng.randint) triples of a call
DurChoices ==
    {<<TRUE, d, MinDur>> : d \in CreateDurs} \cup {<<FALSE, 0, r>> : r \in MinDur..MaxDur}

\* the outcomes of the environment that a creation in mode m can depend on
EnvChoices(m) == IF m = "obstacle" THEN SpawnOutcomes ELSE {"ok"}

\* the argument and environment choices that can make a difference to a
\* create_accident_at(l, ignore_max_concurrent=ignore) call in the current
\* state: one representative when the call is refused whatever they are
CreateChoices(l, ignore) ==
    IF CreateAccidentAt(World, l, TRUE, 0, MinDur, "lane_block", ignore, "ok").ret
    THEN {<<m, d, e>> : m \in ModeArgs, d \in DurChoices, e \in SpawnOutcomes}
    ELSE {<<"", <<TRUE, 0, MinDur>>, "ok">>}

\* a call of AccidentManager.step(step_idx)
CallStep ==
    \E step_idx \in 0..MaxTime, r \in RandomDraws :
      \E pick \in StepPicks(World, step_idx) :
        \E rdur \in (IF pick = "" \/ r >= prob THEN {MinDur} ELSE MinDur..MaxDur),
           env \in (IF pick = "" \/ r >= prob THEN {"ok"} ELSE EnvChoices(mode)) :
          LET res == StepManager(World, step_idx, r, pick, rdur, env)
          IN  /\ res.w.veh_seq <= MaxVehSeq
              /\ Commit(res.w)
              /\ UNCHANGED <<mode, prob, max_concurrent, enable_markers, simTime,
                             everOverride, sessVars, botVars, tlsVars, libVars>>

\* a call of AccidentManager.create_accident_at(lane_id, ...)
CallCreate ==
    \E l \in LaneIds, ignore \in BOOLEAN :
      \E c \in CreateChoices(l, ignore) :
        LET modeArg == c[1]
            use_mode == Lower(IF modeArg # "" THEN modeArg ELSE mode)
            res == CreateAccidentAt(World, l, c[2][1], c[2][2], c[2][3], modeArg,
                                    ignore, c[3])
        IN  /\ c[3] \in EnvChoices(use_mode)
            /\ res.w.veh_seq <= MaxVehSeq
            /\ Commit(res.w)
            /\ everOverride' = (everOverride \/ ignore)
            /\ UNCHANGED <<mode, prob, max_concurrent, enable_markers, simTime,
                           sessVars, botVars, tlsVars, libVars>>

\* a call of AccidentManager.clear_accident(lane_id)
CallClearAccident ==
    \E l \in LaneIds :
        LET res == ClearAccident(World, l)
        IN  /\ Commit(res.w)
            /\ UNCHANGED <<mode, prob, max_concurrent, enable_markers, simTime,
                           everOverride, sessVars, botVars, tlsVars, libVars>>

\* a call of AccidentManager.clear_all()
CallClearAll ==
    LET res == ClearAll(World)
    IN  /\ Commit(res.w)
        /\ UNCHANGED <<mode, prob, max_concurrent, enable_markers, simTime,
                       everOverride, sessVars, botVars, tlsVars, libVars>>

\* a call of AccidentManager.shutdown()
CallShutdown ==
    /\ Commit(Shutdown(World))
    /\ UNCHANGED <<mode, prob, max_concurrent, enable_markers, simTime,
                   everOverride, sessVars, botVars, tlsVars, libVars>>

\* a call of AccidentManager.get_edge_impacts(edge_ids) with default severities:
\* it returns a dictionary over edge_ids and changes nothing
CallGetEdgeImpacts ==
    \E edge_ids \in SUBSET QueryEdges :
        /\ DOMAIN GetEdgeImpacts(World, edge_ids, SeverityLaneBlock,
                                 SeverityObstacle) = edge_ids
        /\ UNCHANGED vars

\* the manager on its own: no session loop and no bot is running
Init == InitManager /\ SessionIdle /\ BotIdle /\ TlsIdle /\ LibIdle

Next ==
    \/ SimulationStep
    \/ CallStep
    \/ CallCreate
    \/ CallClearAccident
    \/ CallClearAll
    \/ CallShutdown
    \/ CallGetEdgeImpacts

Spec == Init /\ [][Next]_vars

(***************************************************************************)
(* The interactive session: src/scripts/start_sim_gui.py.  HTTP handler    *)
(* threads put command objects on command_queue; the main thread drains    *)
(* the queue at the start of every iteration of its step loop.             *)
(***************************************************************************)
ACCIDENT_MODE == "obstacle"
ACCIDENT_PROB_PER_STEP == 0
ACCIDENT_MAX_CONCURRENT == 3

\* Optional values: None, and a present value v
None == << >>
Some(v) == <<v>>

\* Python truthiness of an optional string: None and "" are falsy
Truthy(o) == o # None /\ o[1] # ""

\* the JSON objects a client may post: a field is None when the key is absent
SpawnLaneBodies ==
    [lane_id : {None, Some(""), Some("E1_0")},
     mode : {None},
     ignore_max_concurrent : {None, Some(FALSE)}]
SpawnGeoBodies == [lon : {None, Some(37)}, lat : {None, Some(0), Some(55)}]
ClearLaneBodies == [lane_id : {None, Some(""), Some("E1_0")}]

\* float() of a JSON number
Float(x) == x

\* bool(data.get("ignore_max_concurrent", False))
BoolOf(o) == o # None /\ o[1]

\* SpawnCmd(...) and ClearCmd(...): pos_m is not modelled, duration_steps is
\* passed through and is None in every body above
SpawnCmd(lon, lat, lane_id, cmd_mode, ignore) ==
    [type |-> "SpawnCmd", lon |-> lon, lat |-> lat, lane_id |-> lane_id,
     mode |-> cmd_mode, ignore_max_concurrent |-> ignore]
ClearCmd(lane_id) == [type |-> "ClearCmd", lane_id |-> lane_id]

\* command_queue.put(cmd): n command objects exist already; the new object is
\* told apart from equal ones by its number
QueuePut(q, n, cmd) == Append(q, [seq |-> n + 1, cmd |-> cmd])

\* command_queue.get_nowait() on a non-empty queue
QueueGet_Newest(q) == [item |-> q[Len(q)], q |-> SubSeq(q, 1, Len(q) - 1)]
QueueGet(q) == [item |-> Head(q), q |-> Tail(q)]

\* the HTTP handlers: [q, n, status, ok]
Reply(q, n, status, ok) == [q |-> q, n |-> n, status |-> status, ok |-> ok]
Accepted(q, n, cmd) == Reply(QueuePut(q, n, cmd), n + 1, 200, TRUE)

ApiSpawnLane(q, n, data) ==
    IF ~Truthy(data.lane_id) THEN Reply(q, n, 400, FALSE)
    ELSE Accepted(q, n, SpawnCmd(None, None, data.lane_id, data.mode,
                                 BoolOf(data.ignore_max_concurrent)))

ApiSpawnGeo_LonOnly(q, n, data) ==
    IF data.lon = None THEN Reply(q, n, 400, FALSE)
    ELSE Accepted(q, n, SpawnCmd(Some(Float(data.lon[1])), data.lat, None, None,
                                 FALSE))
ApiSpawnGeo(q, n, data) ==
    IF data.lon = None \/ data.lat = None THEN Reply(q, n, 400, FALSE)
    ELSE Accepted(q, n, SpawnCmd(Some(Float(data.lon[1])),
                                 Some(Float(data.lat[1])), None, None, FALSE))

ApiClearLane(q, n, data) ==
    IF ~Truthy(data.lane_id) THEN Reply(q, n, 400, FALSE)
    ELSE Accepted(q, n, ClearCmd(data.lane_id))

ApiClearAll(q, n) == Accepted(q, n, ClearCmd(None))

ApiHealth(q, n) == Reply(q, n, 200, TRUE)

\* traci.simulation.convertRoad(lon, lat, isGeo=True): the edge and the lane
\* index nearest to the place; no edge when there is none within reach
ConvertRoad(lon, lat) == IF lat = 55 THEN <<"E1", 1>> ELSE <<"", 0>>

\* f"{edge_id}_{lane_index}"
LaneIdOf(edge_id, lane_index) ==
    CASE edge_id = "E1" /\ lane_index = 0 -> "E1_0"
      [] edge_id = "E1" /\ lane_index = 1 -> "E1_1"
      [] edge_id = "E2" /\ lane_index = 0 -> "E2_0"
      [] OTHER -> "_0"


\* process_commands, the handling of one command taken from the queue:
\* [w, called], called when the command reached the accident manager
ApplyCommand(w, cmd, rdur, outcome) ==
    IF cmd.type = "SpawnCmd"
    THEN LET geo == cmd.lane_id = None /\ cmd.lon # None /\ cmd.lat # None
             road == ConvertRoad(cmd.lon[1], cmd.lat[1])
             lane_id == IF geo THEN Some(LaneIdOf(road[1], road[2]))
                        ELSE cmd.lane_id
         IN  IF lane_id = None THEN [w |-> w, called |-> FALSE]
             ELSE [w |-> CreateAccidentAt(w, lane_id[1], FALSE, 0, rdur,
                                          IF cmd.mode = None THEN ""
                                          ELSE cmd.mode[1],
                                          cmd.ignore_max_concurrent, outcome).w,
                   called |-> TRUE]
    ELSE IF Truthy(cmd.lane_id)
         THEN [w |-> ClearAccident(w, cmd.lane_id[1]).w, called |-> TRUE]
         ELSE [w |-> ClearAll(w).w, called |-> TRUE]

\* the random durations and obstacle outcomes that can make a difference to
\* the handling of cmd in the current state
ApplyChoices(cmd) ==
    IF cmd.type = "SpawnCmd"
       /\ ApplyCommand(World, cmd, MinDur, "raise_add").w.active # active
    THEN {<<d, e>> : d \in MinDur..MaxDur,
                     e \in EnvChoices(Lower(IF cmd.mode = None THEN mode
                                            ELSE cmd.mode[1]))}
    ELSE {<<MinDur, "ok">>}

\* AccidentManager.shutdown() once the connection is closed: every protocol
\* call raises and is swallowed, only self.active.clear() has an effect
ShutdownDisconnected(w) == [w EXCEPT !.active = << >>]

\* the script up to the step loop: the HTTP API is started, the simulator is
\* launched and the manager is constructed from the script's parameters
SessionInit ==
    /\ mode = ACCIDENT_MODE
    /\ prob = ACCIDENT_PROB_PER_STEP
    /\ max_concurrent = ACCIDENT_MAX_CONCURRENT
    /\ enable_markers = TRUE
    /\ active = << >>
    /\ veh_seq = 0
    /\ laneSpeed = InitLaneSpeed
    /\ laneAllowed = InitLaneAllowed
    /\ vehicles = {}
    /\ pois = {}
    /\ simTime = 0
    /\ everOverride = FALSE
    /\ command_queue = << >>
    /\ enq_count = 0
    /\ applied = << >>
    /\ loop_pc = "start"
    /\ step = 0
    /\ drain_mark = 0
    /\ connected = TRUE
    /\ BotIdle
    /\ TlsIdle
    /\ LibIdle

\* an HTTP handler thread serves one request: res is the handler's result
Serve_Direct(res) ==
    /\ loop_pc \notin {"idle", "done"}
    /\ res.n <= MaxCmds
    /\ command_queue' = res.q
    /\ enq_count' = res.n
    /\ Commit(ClearAll(World).w)
    /\ UNCHANGED <<mode, prob, max_concurrent, enable_markers, simTime,
                   everOverride, applied, loop_pc, step, drain_mark, connected,
                   botVars, tlsVars, libVars>>
Serve(res) ==
    /\ loop_pc \notin {"idle", "done"}
    /\ res.n <= MaxCmds
    /\ command_queue' = res.q
    /\ enq_count' = res.n
    /\ UNCHANGED <<amVars, applied, loop_pc, step, drain_mark, connected, botVars,
                   tlsVars, libVars>>

HttpSpawnLane ==
    \E data \in SpawnLaneBodies : Serve(ApiSpawnLane(command_queue, enq_count, data))

HttpSpawnGeo ==
    \E data \in SpawnGeoBodies : Serve(ApiSpawnGeo(command_queue, enq_count, data))

HttpClearLane ==
    \E data \in ClearLaneBodies : Serve(ApiClearLane(command_queue, enq_count, data))

HttpClearAll == Serve(ApiClearAll(command_queue, enq_count))

HttpHealth == Serve(ApiHealth(command_queue, enq_count))

\* the for loop is entered: the first process_commands call begins
LoopBegin ==
    /\ loop_pc = "start"
    /\ loop_pc' = "process"
    /\ drain_mark' = enq_count
    /\ UNCHANGED <<amVars, command_queue, enq_count, applied, step, connected,
                   botVars, tlsVars, libVars>>

\* process_commands: get_nowait() returns a command, which is handled
ProcessCommand ==
    /\ loop_pc = "process"
    /\ command_queue # << >>
    /\ LET got == QueueGet(command_queue)
       IN  \E c \in ApplyChoices(got.item.cmd) :
             LET res == ApplyCommand(World, got.item.cmd, c[1], c[2])
             IN  /\ Commit(res.w)
                 /\ command_queue' = got.q
                 /\ applied' = IF res.called THEN Append(applied, got.item.seq)
                               ELSE applied
                 /\ everOverride' =
                        (everOverride \/ (got.item.cmd.type = "SpawnCmd"
                                          /\ got.item.cmd.ignore_max_concurrent))
    /\ UNCHANGED <<mode, prob, max_concurrent, enable_markers, simTime, enq_count,
                   loop_pc, step, drain_mark, connected, botVars, tlsVars,
                   libVars>>

\* process_commands: get_nowait() raises queue.Empty and the call returns
ProcessEmpty ==
    /\ loop_pc = "process"
    /\ command_queue = << >>
    /\ loop_pc' = "advance"
    /\ UNCHANGED <<amVars, command_queue, enq_count, applied, step, drain_mark,
                   connected, botVars, tlsVars, libVars>>

\* the phases are read into last_phase_idx and traci.simulationStep()
\* advances the simulator, the signal following its program
LoopSimulationStep ==
    /\ loop_pc = "advance"
    /\ simTime' = simTime + 1
    /\ last_phase_idx' = tls_phase
    /\ tls_phase' = PhaseAt(simTime + 1)
    /\ loop_pc' = "manage"
    /\ UNCHANGED <<mode, prob, max_concurrent, enable_markers, active, veh_seq,
                   laneSpeed, laneAllowed, vehicles, pois, everOverride,
                   command_queue, enq_count, applied, step, drain_mark, connected,
                   botVars, phase_calls, libVars>>

\* a protocol call of the loop body raises TraCIException: the except clause
\* prints it and the finally block follows
LoopTraciError ==
    /\ loop_pc = "advance"
    /\ loop_pc' = "finally"
    /\ UNCHANGED <<amVars, command_queue, enq_count, applied, step, drain_mark,
                   connected, botVars, tlsVars, libVars>>

\* accident_manager.step(step), then the early-exit test and the next
\* iteration of the for loop, whose process_commands call begins
LoopManagerStep ==
    /\ loop_pc = "manage"
    /\ \E r \in RandomDraws, early \in BOOLEAN :
         \E pick \in StepPicks(World, step) :
           /\ Commit(StepManager(World, step, r, pick, MinDur, "ok").w)
           /\ IF (early /\ step > 1) \/ step + 1 >= MaxSteps
              THEN loop_pc' = "close" /\ UNCHANGED <<step, drain_mark>>
              ELSE /\ loop_pc' = "process"
                   /\ step' = step + 1
                   /\ drain_mark' = enq_count
    /\ UNCHANGED <<mode, prob, max_concurrent, enable_markers, simTime,
                   everOverride, command_queue, enq_count, applied, connected,
                   botVars, tlsVars, libVars>>

\* the loop is over: traci.close()
LoopClose ==
    /\ loop_pc = "close"
    /\ connected' = FALSE
    /\ loop_pc' = "finally"
    /\ UNCHANGED <<amVars, command_queue, enq_count, applied, step, drain_mark,
                   botVars, tlsVars, libVars>>

\* the finally block: accident_manager.shutdown(), then traci.close()
Finally ==
    /\ loop_pc = "finally"
    /\ Commit(IF connected THEN Shutdown(World) ELSE ShutdownDisconnected(World))
    /\ connected' = FALSE
    /\ loop_pc' = "done"
    /\ UNCHANGED <<mode, prob, max_concurrent, enable_markers, simTime,
                   everOverride, command_queue, enq_count, applied, step,
                   drain_mark, botVars, tlsVars, libVars>>

SessionNext ==
    \/ HttpSpawnLane
    \/ HttpSpawnGeo
    \/ HttpClearLane
    \/ HttpClearAll
    \/ HttpHealth
    \/ LoopBegin
    \/ ProcessCommand
    \/ ProcessEmpty
    \/ LoopSimulationStep
    \/ LoopTraciError
    \/ LoopManagerStep
    \/ LoopClose
    \/ Finally

SessionSpec == SessionInit /\ [][SessionNext]_vars

(***************************************************************************)
(* The bot: src/scripts/accident_bot.py.  Its handlers are stateless; what *)
(* they do is recorded as the requests they send to the session's HTTP API *)
(* and the responses they give to the user.                                *)
(***************************************************************************)
\* user ids are kept as strings
TRUSTED_USER_IDS == {"1564311227", "5044597738"}
UserIds == TRUSTED_USER_IDS \cup {"42"}

CommandNames ==
    {"start", "help", "whoami", "health", "spawn_here", "clear_all",
     "send_location_button"}
CallbackData ==
    {"health", "clear_all_confirm", "spawn_here", "clear_all_prompt", "help_open",
     "menu", ""}

\* the updates the registered handlers accept: a command or a location, as a
\* new message or as an edited message, and a press of an inline button
CommandUpdates ==
    [kind : {"message", "edited_message"}, user : UserIds, text : CommandNames,
     location : {None}, data : {""}]
LocationUpdates ==
    [kind : {"message", "edited_message"}, user : UserIds, text : {""},
     location : {Some(<<37, 55>>)}, data : {""}]
CallbackUpdates ==
    [kind : {"callback_query"}, user : UserIds, text : {""}, location : {None},
     data : CallbackData]

\* the outcomes of an HTTP request of the bot: the API serves it, or the
\* request raises (connection refused, timeout)
NetOutcomes == {"ok", "fail"}

\* is_trusted(update)
is_trusted(u) == u.user \in TRUSTED_USER_IDS

\* update.message is None unless the update is a new message
HasMessage(u) == u.kind = "message"

\* what a handler did: the POST requests it sent, its responses to the user,
\* whether it ended by raising, and the API's queue afterwards
Done(q, n, posts, replies, raised) ==
    [q |-> q, n |-> n, posts |-> posts, replies |-> replies, raised |-> raised]

\* await update.message.reply_text(...) as the last statement of a handler
\* that has sent posts and given replies so far
ReplyText(u, q, n, posts, replies, what) ==
    IF HasMessage(u) THEN Done(q, n, posts, Append(replies, what), FALSE)
    ELSE Done(q, n, posts, replies, TRUE)

\* http_post to a state-changing endpoint inside try/except, with the three
\* reply_text calls of the handler; api is the API handler's result
PostAndReply(u, q, n, endpoint, api, net) ==
    IF net = "ok"
    THEN ReplyText(u, api.q, api.n, <<endpoint>>, << >>,
                   IF api.ok THEN "accepted" ELSE "error")
    ELSE ReplyText(u, q, n, <<endpoint>>, << >>, "failure")

\* start -> show_main_menu: replies through update.effective_message
start(u, q, n) == Done(q, n, << >>, <<"menu">>, FALSE)

help_cmd(u, q, n) == ReplyText(u, q, n, << >>, << >>, "help")

whoami(u, q, n) == ReplyText(u, q, n, << >>, << >>, "user_id")

\* health: GET /api/health changes nothing
health(u, q, n, net) ==
    ReplyText(u, q, n, << >>, << >>, IF net = "ok" THEN "health" ELSE "failure")

spawn_here_prompt(u, q, n) ==
    IF ~is_trusted(u) THEN ReplyText(u, q, n, << >>, << >>, "denial")
    ELSE ReplyText(u, q, n, << >>, << >>, "prompt")

location_handler(u, q, n, net) ==
    IF ~is_trusted(u) THEN ReplyText(u, q, n, << >>, << >>, "denial")
    ELSE IF ~HasMessage(u) \/ u.location = None THEN Done(q, n, << >>, << >>, FALSE)
    ELSE PostAndReply(u, q, n, "/api/spawn_geo",
                      ApiSpawnGeo(q, n, [lon |-> Some(u.location[1][1]),
                                         lat |-> Some(u.location[1][2])]), net)

clear_all(u, q, n, net) ==
    IF ~is_trusted(u) THEN ReplyText(u, q, n, << >>, << >>, "denial")
    ELSE PostAndReply(u, q, n, "/api/clear_all", ApiClearAll(q, n), net)

send_location_button(u, q, n) ==
    IF ~is_trusted(u) THEN ReplyText(u, q, n, << >>, << >>, "denial")
    ELSE ReplyText(u, q, n, << >>, << >>, "prompt")

\* on_button: q.answer() first, then the branch of the callback data
on_button(u, q, n, net) ==
    LET restricted == u.data \in {"clear_all_confirm", "spawn_here",
                                  "clear_all_prompt"}
    IN  IF restricted /\ ~is_trusted(u)
        THEN Done(q, n, << >>, <<"answer", "denial">>, FALSE)
        ELSE IF u.data = "clear_all_confirm"
        THEN IF net = "ok"
             THEN LET api == ApiClearAll(q, n)
                  IN  Done(api.q, api.n, <<"/api/clear_all">>,
                           <<"answer", IF api.ok THEN "accepted" ELSE "error">>,
                           FALSE)
             ELSE Done(q, n, <<"/api/clear_all">>, <<"answer", "failure">>, FALSE)
        ELSE IF u.data = "health"
        THEN Done(q, n, << >>,
                  <<"answer", IF net = "ok" THEN "health" ELSE "failure">>, FALSE)
        ELSE IF u.data = "spawn_here"
        THEN Done(q, n, << >>, <<"answer", "prompt">>, FALSE)
        ELSE IF u.data = "" THEN Done(q, n, << >>, <<"answer">>, FALSE)
        ELSE Done(q, n, << >>, <<"answer", "edit">>, FALSE)

\* the bot runs against a session whose HTTP API is up
BotInit == SessionInit

\* the application handles update u with handler result res under network
\* outcome net
Handle(u, net, res) ==
    /\ bot_handled < MaxUpdates
    /\ res.n <= MaxCmds
    /\ command_queue' = res.q
    /\ enq_count' = res.n
    /\ bot_last' = [update |-> u, net |-> net, posts |-> res.posts,
                    replies |-> res.replies, raised |-> res.raised,
                    queued |-> SubSeq(res.q, Len(command_queue) + 1, Len(res.q))]
    /\ bot_sent_for' = IF res.posts # << >> THEN bot_sent_for \cup {u.user}
                       ELSE bot_sent_for
    /\ bot_handled' = bot_handled + 1
    /\ UNCHANGED <<amVars, applied, loop_pc, step, drain_mark, connected,
                   tlsVars, libVars>>

\* the updates a CommandHandler for name takes
CommandsNamed(name) == {u \in CommandUpdates : u.text = name}

BotStart ==
    \E u \in CommandsNamed("start") : Handle(u, "ok", start(u, command_queue, enq_count))

BotHelp ==
    \E u \in CommandsNamed("help") : Handle(u, "ok", help_cmd(u, command_queue, enq_count))

BotWhoami ==
    \E u \in CommandsNamed("whoami") : Handle(u, "ok", whoami(u, command_queue, enq_count))

BotHealth ==
    \E u \in CommandsNamed("health"), net \in NetOutcomes :
        Handle(u, net, health(u, command_queue, enq_count, net))

BotSpawnHere ==
    \E u \in CommandsNamed("spawn_here") :
        Handle(u, "ok", spawn_here_prompt(u, command_queue, enq_count))

BotClearAll ==
    \E u \in CommandsNamed("clear_all"), net \in NetOutcomes :
        Handle(u, net, clear_all(u, command_queue, enq_count, net))

BotSendLocationButton ==
    \E u \in CommandsNamed("send_location_button") :
        Handle(u, "ok", send_location_button(u, command_queue, enq_count))

BotLocation ==
    \E u \in LocationUpdates, net \in NetOutcomes :
        Handle(u, net, location_handler(u, command_queue, enq_count, net))

BotOnButton ==
    \E u \in CallbackUpdates, net \in NetOutcomes :
        Handle(u, net, on_button(u, command_queue, enq_count, net))

BotNext ==
    \/ BotStart
    \/ BotHelp
    \/ BotWhoami
    \/ BotHealth
    \/ BotSpawnHere
    \/ BotClearAll
    \/ BotSendLocationButton
    \/ BotLocation
    \/ BotOnButton

BotSpec == BotInit /\ [][BotNext]_vars

(***************************************************************************)
(* Part 4.  utils/q_learning.py: the state model, the reward combination   *)
(* and QLearningAgent.  Python floats are written in fixed point: a reward *)
(* or Q-value is an integer number of reward units, epsilon an integer     *)
(* number of epsilon units, and a coefficient (learning rate, discount,    *)
(* decay, weight) is a fraction <<numerator, denominator>>.  Every         *)
(* arithmetic operation rounds its result to the nearest unit, ties to     *)
(* even, as every float operation rounds to the nearest float.             *)
(***************************************************************************)
\* 1.0 in reward units and in epsilon units
RewardOne == 4 * QuarterUnits
EpsilonOne == 100 * HundredthUnits

\* n / d rounded to the nearest integer, ties to even (d > 0)
RoundDiv(n, d) ==
    LET q == n \div d
        r == n - q * d
    IN  IF 2 * r < d THEN q
        ELSE IF 2 * r > d THEN q + 1
        ELSE IF q % 2 = 0 THEN q ELSE q + 1

\* the float product of a quantity x and a coefficient c
Times(x, c) == RoundDiv(x * c[1], c[2])

\* the elements of a sequence
Range(seq) == {seq[i] : i \in 1..Len(seq)}

\* max(...) over a non-empty set of numbers
MaxOf(S) == CHOOSE x \in S : \A y \in S : y <= x

\* ---------- the state model ----------
QueueCategories == {"Low", "Medium", "High"}
\* the edges the signal controls, in the order the collection iterates
ControlledEdges == <<"E1">>
\* sumo_utils.get_all_tls_phases: the state strings of the program's phases
PhaseStates == <<"Gr", "rG">>
\* the first component of a state tuple built from a phase index: the index
\* as a numeral, which differs from every phase state string
IndexKey(i) == IF i = 0 THEN "0" ELSE "1"

\* create_state_table: one tuple (phase, categories...) per phase state
\* string and per combination of categories
create_state_table(phases, controlled_edges) ==
    {<<ph>> \o cats : ph \in Range(phases),
                      cats \in [1..Len(controlled_edges) -> QueueCategories]}

\* the branch data2queue_categories takes for a waiting time
Category_Inclusive(wt) ==
    IF wt <= 10 THEN "Low" ELSE IF wt <= 30 THEN "Medium" ELSE "High"
Category(wt) ==
    IF wt < 10 THEN "Low" ELSE IF wt < 30 THEN "Medium" ELSE "High"

\* data2queue_categories, wt being traci.edge.getWaitingTime
data2queue_categories(wt, controlled_edges) ==
    [i \in 1..Len(controlled_edges) |-> Category(wt[controlled_edges[i]])]

\* create_state_for_tls, phase being traci.trafficlight.getPhase
create_state_for_tls(phase, wt, controlled_edges) ==
    <<IndexKey(phase)>> \o data2queue_categories(wt, controlled_edges)

\* ---------- the reward combination ----------
calculate_total_reward_Unweighted(local_reward, global_reward, wl, wg) ==
    local_reward + global_reward
calculate_total_reward(local_reward, global_reward, weight_local, weight_global) ==
    Times(local_reward, weight_local) + Times(global_reward, weight_global)

\* ---------- QLearningAgent ----------
\* the lambda of the defaultdict: a row of zeros
ZeroRow(actions) == [a \in Range(actions) |-> 0]

\* QLearningAgent.__init__: the table holds a row of zeros per given state
NewTable(states, actions) == [st \in states |-> ZeroRow(actions)]

\* self.q_table[state]: the row read, and the table after the read, which
\* inserts a row of zeros for a state not yet in the table
Row(ag, q, state) ==
    IF state \in DOMAIN q THEN q[state] ELSE ZeroRow(ag.actions)
Touch_Overwrite(ag, q, state) ==
    [st \in DOMAIN q \cup {state} |->
        IF st = state THEN ZeroRow(ag.actions) ELSE q[st]]
Touch(ag, q, state) ==
    IF state \in DOMAIN q THEN q
    ELSE [st \in DOMAIN q \cup {state} |->
            IF st = state THEN ZeroRow(ag.actions) ELSE q[st]]

\* the keys of a row in the order of its dictionary: the action list of
\* the agent that made the row, and every action list in use is descending
RECURSIVE Descending(_)
Descending(S) ==
    IF S = {} THEN << >> ELSE <<MaxOf(S)>> \o Descending(S \ {MaxOf(S)})
RowKeys(row) == Descending(DOMAIN row)

\* choose_action's greedy branch: the keys of the row whose value is the
\* largest seen, in the order of the row
BestActions_First(ag, row) == <<ag.actions[1]>>
BestActions(ag, row) ==
    LET max_q == MaxOf({row[a] : a \in DOMAIN row})
    IN  SelectSeq(RowKeys(row), LAMBDA a : row[a] = max_q)

\* choose_action: u is the value of np.random.uniform(0, 1), k the index
\* np.random.choice draws
choose_action(ag, q, eps, state, u, k) ==
    IF u < eps
    THEN [q_table |-> q, action |-> ag.actions[((k - 1) % Len(ag.actions)) + 1]]
    ELSE LET best == BestActions(ag, Row(ag, q, state))
         IN  [q_table |-> Touch(ag, q, state),
              action |-> best[((k - 1) % Len(best)) + 1]]

\* the new value update_q_table computes
NewQ_Overshoot(ag, current_q, reward, max_q_next) ==
    current_q + 2 * (reward + Times(max_q_next, ag.gamma) - current_q)
NewQ(ag, current_q, reward, max_q_next) ==
    current_q + Times(reward + Times(max_q_next, ag.gamma) - current_q, ag.lr)

\* update_q_table
update_q_table(ag, q, state, action, reward, next_state) ==
    LET q1 == Touch(ag, q, state)
        current_q == q1[state][action]
        q2 == Touch(ag, q1, next_state)
        max_q_next == MaxOf({q2[next_state][a] : a \in DOMAIN q2[next_state]})
    IN  [q2 EXCEPT ![state][action] = NewQ(ag, current_q, reward, max_q_next)]

\* decay_epsilon
decay_epsilon_NoFloor(ag, eps) == Times(eps, ag.epsilon_decay)
decay_epsilon(ag, eps) == Max(ag.min_epsilon, Times(eps, ag.epsilon_decay))

\* save_q_table: the file holds a copy of the table
save_q_table(q, dsk, filename) ==
    [f \in DOMAIN dsk \cup {filename} |-> IF f = filename THEN q ELSE dsk[f]]

\* load_q_table: os.path.exists decides between the file's table and a notice
load_q_table_Reset(ag, q, dsk, filename) ==
    [q_table |-> IF filename \in DOMAIN dsk THEN dsk[filename] ELSE << >>,
     printed |-> filename \notin DOMAIN dsk]
load_q_table(ag, q, dsk, filename) ==
    [q_table |-> IF filename \in DOMAIN dsk THEN dsk[filename] ELSE q,
     printed |-> filename \notin DOMAIN dsk]

\* ---------- the module driven by an arbitrary caller ----------
\* constructor arguments: the defaults of learning rate and discount with a
\* greedy agent, and with an exploring agent whose epsilon falls tenfold
AgentConfigs ==
    {[lr |-> <<1, 10>>, gamma |-> <<9, 10>>, epsilon |-> 0,
      epsilon_decay |-> <<1, 1>>, min_epsilon |-> 0],
     [lr |-> <<1, 10>>, gamma |-> <<9, 10>>, epsilon |-> EpsilonOne,
      epsilon_decay |-> <<1, 10>>, min_epsilon |-> HundredthUnits]}
\* the default action list of the module
DefaultActions == <<5, 0, -5>>

\* the agent a constructor call with arguments c builds
NewAgent(c, states, actions) ==
    [lr |-> c.lr, gamma |-> c.gamma, epsilon_decay |-> c.epsilon_decay,
     min_epsilon |-> c.min_epsilon, actions |-> actions, states |-> states]

\* file names, and a table an earlier run saved
QFile == "q_table_T1.npy"
FileNames == {QFile, "missing.npy"}
TrainedTable ==
    (<<"0", "Low">> :> (5 :> 40 @@ 0 :> 40 @@ -5 :> -10))
    @@ (<<"1", "High">> :> (5 :> -30 @@ 0 :> -20 @@ -5 :> -70))

\* the states, rewards and random draws the caller passes
CallStates == {<<"0", "Low">>, <<"1", "High">>}
CallRewards == {-2 * QuarterUnits, RewardOne}
UniformDraws == {0, EpsilonOne - 1}
CallWaiting == {0, 9, 10, 29, 30, 45}
CallEdgeLists == {<<"E1">>, <<"E1", "E2">>, <<"E2", "E1">>}
CallWeights == {<<1, 2>>, <<3, 10>>, <<1, 1>>}

QInit ==
    /\ \E c \in AgentConfigs :
         /\ agent = NewAgent(c, create_state_table(PhaseStates, ControlledEdges),
                             DefaultActions)
         /\ epsilon = c.epsilon
    /\ q_table = NewTable(agent.states, agent.actions)
    /\ disk \in {<< >>, QFile :> TrainedTable}
    /\ q_ret = [op |-> "none"]
    /\ q_updates = 0
    /\ ManagerIdle /\ SessionIdle /\ BotIdle /\ TlsIdle
    /\ MetIdle /\ SafeIdle /\ LearnIdle

QUnchanged == UNCHANGED <<amVars, sessVars, botVars, tlsVars, metVars, safeVars,
                          learnVars, agent>>

QChooseAction ==
    /\ \E state \in CallStates, u \in UniformDraws, k \in 1..Len(agent.actions) :
         LET res == choose_action(agent, q_table, epsilon, state, u, k)
         IN  /\ q_table' = res.q_table
             /\ q_ret' = [op |-> "choose_action", state |-> state,
                          value |-> res.action]
    /\ UNCHANGED <<epsilon, disk, q_updates>>
    /\ QUnchanged

QUpdateQTable ==
    /\ q_updates < MaxQUpdates
    /\ \E state \in CallStates, action \in Range(agent.actions),
          reward \in {RewardOne}, next_state \in CallStates :
         /\ q_table' = update_q_table(agent, q_table, state, action, reward,
                                      next_state)
         /\ q_ret' = [op |-> "update_q_table", state |-> state,
                      action |-> action, reward |-> reward,
                      next_state |-> next_state]
    /\ q_updates' = q_updates + 1
    /\ UNCHANGED <<epsilon, disk>>
    /\ QUnchanged

QDecayEpsilon ==
    /\ epsilon' = decay_epsilon(agent, epsilon)
    /\ q_ret' = [op |-> "decay_epsilon", old |-> epsilon]
    /\ UNCHANGED <<q_table, disk, q_updates>>
    /\ QUnchanged

QSaveQTable ==
    /\ disk' = save_q_table(q_table, disk, QFile)
    /\ q_ret' = [op |-> "save_q_table", filename |-> QFile]
    /\ UNCHANGED <<q_table, epsilon, q_updates>>
    /\ QUnchanged

QLoadQTable ==
    /\ \E filename \in FileNames :
         LET res == load_q_table(agent, q_table, disk, filename)
         IN  /\ q_table' = res.q_table
             /\ q_ret' = [op |-> "load_q_table", filename |-> filename,
                          printed |-> res.printed, before |-> q_table]
    /\ UNCHANGED <<epsilon, disk, q_updates>>
    /\ QUnchanged

QCreateStateForTls ==
    /\ \E phase \in PhaseIndices, edges \in CallEdgeLists,
          wt \in [{"E1", "E2"} -> CallWaiting] :
         q_ret' = [op |-> "create_state_for_tls", phase |-> phase,
                   edges |-> edges, wt |-> wt,
                   value |-> create_state_for_tls(phase, wt, edges)]
    /\ UNCHANGED <<q_table, epsilon, disk, q_updates>>
    /\ QUnchanged

QCalculateTotalReward ==
    /\ \E l \in CallRewards, g \in CallRewards, wl \in CallWeights,
          wg \in CallWeights :
         q_ret' = [op |-> "calculate_total_reward", local |-> l, global |-> g,
                   weight_local |-> wl, weight_global |-> wg,
                   value |-> calculate_total_reward(l, g, wl, wg)]
    /\ UNCHANGED <<q_table, epsilon, disk, q_updates>>
    /\ QUnchanged

QNext ==
    \/ QChooseAction
    \/ QUpdateQTable
    \/ QDecayEpsilon
    \/ QSaveQTable
    \/ QLoadQTable

QSpec == QInit /\ [][QNext]_vars

\* the module's functions called on their own
FnInit ==
    /\ QIdle
    /\ ManagerIdle /\ SessionIdle /\ BotIdle /\ TlsIdle
    /\ MetIdle /\ SafeIdle /\ LearnIdle

FnNext ==
    \/ QCreateStateForTls
    \/ QCalculateTotalReward

FnSpec == FnInit /\ [][FnNext]_vars

\* ---------- epsilon over the episodes of a training run ----------
\* an agent with epsilon 1.0, decay 0.995 and floor 0.01, as C13 names them
DecayInit ==
    /\ agent = NewAgent([lr |-> <<1, 10>>, gamma |-> <<9, 10>>,
                         epsilon_decay |-> <<995, 1000>>,
                         min_epsilon |-> HundredthUnits],
                        create_state_table(PhaseStates, ControlledEdges),
                        DefaultActions)
    /\ epsilon = EpsilonOne
    /\ q_table = NewTable(agent.states, agent.actions)
    /\ disk = << >>
    /\ q_ret = [op |-> "none"]
    /\ q_updates = 0
    /\ ManagerIdle /\ SessionIdle /\ BotIdle /\ TlsIdle
    /\ MetIdle /\ SafeIdle /\ LearnIdle

DecayNext == QDecayEpsilon

\* each episode of a run ends with a decay_epsilon call, so a run of ever
\* more episodes keeps calling it
DecaySpec == DecayInit /\ [][DecayNext]_vars /\ WF_vars(QDecayEpsilon)

(***************************************************************************)
(* Part 5.  utils/metrics_cache.py: RewardMetricsCache.  Speeds,           *)
(* occupancies and waiting times are fixed-point numbers as in Part 4.     *)
(***************************************************************************)
\* the constructor's arguments: the edges of interest and the lane list
MetricEdges == {"E1", "E2"}
MetricLanes == <<"E1_0", "E1_1", "E2_0", ":J_0">>
\* waiting_cache_period
WaitingCachePeriod == 2

\* edge_from_lane: lane_id.rsplit("_", 1)[0]
edge_from_lane(l) ==
    CASE l = "E1_0" -> "E1"
      [] l = "E1_1" -> "E1"
      [] l = "E2_0" -> "E2"
      [] l = ":J_0" -> ":J"
      [] OTHER -> l

\* RewardMetricsCache.__init__: self.edge_lanes, the external lanes of each
\* edge of interest in the order of the lane list
EdgeLanes ==
    LET lanesOf(e) ==
            SelectSeq(MetricLanes,
                      LAMBDA l : l # ":J_0" /\ edge_from_lane(l) = e)
    IN  [e \in {e \in MetricEdges : lanesOf(e) # << >>} |-> lanesOf(e)]

\* the cache as a value
Cache ==
    [subscribed |-> subscribed, step_counter |-> step_counter,
     lane_stats |-> lane_stats, edge_stats |-> edge_stats,
     waiting_cache |-> waiting_cache, subscriptions |-> subscriptions]

\* subscribe_all: nothing when the cache believes it is subscribed, else a
\* subscription per lane of the edges of interest
subscribe_all(c) ==
    IF c.subscribed THEN c
    ELSE [c EXCEPT !.subscribed = TRUE,
                   !.subscriptions =
                       UNION {Range(EdgeLanes[e]) : e \in DOMAIN EdgeLanes}]
\* resubscribe
resubscribe(c) == subscribe_all([c EXCEPT !.subscribed = FALSE])

\* refresh_waiting_cache over all edges, wnow[e] being the value of
\* _compute_edge_waiting_mean_now(e)
refresh_waiting_cache(c, wnow) ==
    [c EXCEPT !.waiting_cache = [e \in DOMAIN EdgeLanes |-> wnow[e]]]

\* the accumulators of the edge loop after the lanes lanes[1..n], given the
\* lane statistics ls
RECURSIVE EdgeSums(_, _, _)
EdgeSums(ls, lanes, n) ==
    IF n = 0
    THEN [veh_sum |-> 0, halt_sum |-> 0, speed_num |-> 0, speed_den |-> 0,
          occ_sum |-> 0, occ_cnt |-> 0]
    ELSE LET acc == EdgeSums(ls, lanes, n - 1)
             lane == lanes[n]
         IN  IF lane \notin DOMAIN ls THEN acc
             ELSE LET st == ls[lane]
                  IN  [veh_sum |-> acc.veh_sum + st.veh,
                       halt_sum |-> acc.halt_sum + st.halting,
                       speed_num |-> IF st.veh > 0
                                     THEN acc.speed_num + st.speed * st.veh
                                     ELSE acc.speed_num,
                       speed_den |-> IF st.veh > 0
                                     THEN acc.speed_den + st.veh
                                     ELSE acc.speed_den,
                       occ_sum |-> acc.occ_sum + st.occ,
                       occ_cnt |-> acc.occ_cnt + 1]

\* the "speed" entry of an edge aggregate
EdgeSpeed_Unweighted(ls, lanes, acc) ==
    LET with == {i \in 1..Len(lanes) : lanes[i] \in DOMAIN ls}
        RECURSIVE Sum(_)
        Sum(S) == IF S = {} THEN 0
                  ELSE LET i == CHOOSE i \in S : TRUE
                       IN  ls[lanes[i]].speed + Sum(S \ {i})
    IN  IF with = {} THEN 0 ELSE RoundDiv(Sum(with), Cardinality(with))
EdgeSpeed(ls, lanes, acc) ==
    IF acc.speed_den # 0 /\ RoundDiv(acc.speed_num, acc.speed_den) # 0
    THEN RoundDiv(acc.speed_num, acc.speed_den)
    ELSE 0

\* the aggregate of one edge
EdgeAggregate(c, edge) ==
    LET lanes == EdgeLanes[edge]
        acc == EdgeSums(c.lane_stats, lanes, Len(lanes))
    IN  [veh |-> acc.veh_sum,
         halting |-> acc.halt_sum,
         speed |-> EdgeSpeed(c.lane_stats, lanes, acc),
         occ |-> IF acc.occ_cnt # 0 /\ RoundDiv(acc.occ_sum, acc.occ_cnt) # 0
                 THEN RoundDiv(acc.occ_sum, acc.occ_cnt)
                 ELSE 0,
         waiting_mean |-> IF edge \in DOMAIN c.waiting_cache
                          THEN c.waiting_cache[edge] ELSE 0]

\* update_from_subscriptions refreshing the waiting cache at every call
update_from_subscriptions_EveryCall(c, results, wnow) ==
    LET c1 == IF c.subscribed THEN c ELSE subscribe_all(c)
        c2 == [c1 EXCEPT !.step_counter = c1.step_counter + 1,
                         !.lane_stats = results,
                         !.edge_stats = << >>]
        c3 == refresh_waiting_cache(c2, wnow)
    IN  [c3 EXCEPT !.edge_stats =
                      [e \in DOMAIN EdgeLanes |-> EdgeAggregate(c3, e)]]

\* update_from_subscriptions: results is the value of
\* traci.lane.getAllSubscriptionResults(), with the subscribed variables
\* already read out of each lane's result
update_from_subscriptions(c, results, wnow) ==
    LET c1 == IF c.subscribed THEN c ELSE subscribe_all(c)
        c2 == [c1 EXCEPT !.step_counter = c1.step_counter + 1,
                         !.lane_stats = results,
                         !.edge_stats = << >>]
        c3 == IF c2.step_counter % WaitingCachePeriod = 0
              THEN refresh_waiting_cache(c2, wnow)
              ELSE c2
    IN  [c3 EXCEPT !.edge_stats =
                      [e \in DOMAIN EdgeLanes |-> EdgeAggregate(c3, e)]]

\* assign the cache's variables from a cache value
CommitCache(c) ==
    /\ subscribed' = c.subscribed
    /\ step_counter' = c.step_counter
    /\ lane_stats' = c.lane_stats
    /\ edge_stats' = c.edge_stats
    /\ waiting_cache' = c.waiting_cache
    /\ subscriptions' = c.subscriptions

\* what a lane can report: no vehicle (an empty lane reports a speed all
\* the same), two slow vehicles of which one halts, three fast vehicles
LaneReadings ==
    {[veh |-> 0, speed |-> 13, halting |-> 0, occ |-> 0],
     [veh |-> 2, speed |-> 4, halting |-> 1, occ |-> 45],
     [veh |-> 3, speed |-> 11, halting |-> 0, occ |-> 20]}
\* the sets of lanes getAllSubscriptionResults can report on when the lanes
\* subs are subscribed: all of them, or all but the second lane of E1
ReportingLanes(subs) == {subs, subs \ {"E1_1"}}
\* values of _compute_edge_waiting_mean_now
WaitingMeans == {0, 12}

MetInit ==
    /\ subscribed = FALSE
    /\ step_counter = 0
    /\ lane_stats = << >>
    /\ edge_stats = << >>
    /\ waiting_cache = << >>
    /\ subscriptions = {}
    /\ wnow_hist = << >>
    /\ ManagerIdle /\ SessionIdle /\ BotIdle /\ TlsIdle
    /\ QIdle /\ SafeIdle /\ LearnIdle

MetUnchanged == UNCHANGED <<amVars, sessVars, botVars, tlsVars, qVars, safeVars,
                            learnVars>>

MetSubscribeAll ==
    /\ CommitCache(subscribe_all(Cache))
    /\ UNCHANGED wnow_hist
    /\ MetUnchanged

MetResubscribe ==
    /\ CommitCache(resubscribe(Cache))
    /\ UNCHANGED wnow_hist
    /\ MetUnchanged

\* update_from_subscriptions, called after a simulation step
MetUpdateFromSubscriptions ==
    /\ step_counter < MaxRefreshes
    /\ \E lanes \in ReportingLanes(subscribe_all(Cache).subscriptions),
          w \in WaitingMeans :
         \E results \in [lanes -> LaneReadings] :
           /\ CommitCache(update_from_subscriptions(
                              Cache, results, [e \in MetricEdges |-> w]))
           /\ wnow_hist' = Append(wnow_hist, [e \in MetricEdges |-> w])
    /\ MetUnchanged

\* traci.load: the simulator starts afresh and drops every subscription
MetSimulatorLoad ==
    /\ subscriptions' = {}
    /\ UNCHANGED <<subscribed, step_counter, lane_stats, edge_stats,
                   waiting_cache, wnow_hist>>
    /\ MetUnchanged

MetNext ==
    \/ MetSubscribeAll
    \/ MetResubscribe
    \/ MetUpdateFromSubscriptions
    \/ MetSimulatorLoad

MetSpec == MetInit /\ [][MetNext]_vars

\* the cache over a longer run of update_from_subscriptions calls: every
\* subscribed lane reports the same reading at every call, and the waiting
\* times of the simulation vary freely from call to call and edge to edge
WaitingNow == [MetricEdges -> WaitingMeans]
WaitResults ==
    [l \in subscribe_all(Cache).subscriptions |->
        [veh |-> 2, speed |-> 4, halting |-> 1, occ |-> 45]]

WaitUpdate ==
    /\ step_counter < MaxWaitCalls
    /\ \E wnow \in WaitingNow :
         /\ CommitCache(update_from_subscriptions(Cache, WaitResults, wnow))
         /\ wnow_hist' = Append(wnow_hist, wnow)
    /\ MetUnchanged

WaitNext == WaitUpdate

WaitSpec == MetInit /\ [][WaitNext]_vars

(***************************************************************************)
(* Part 6.  utils/safe_traci.py: safe_traci_call.                          *)
(***************************************************************************)
\* what calling fn does: it returns a value, or it raises an exception of
\* one of these classes
FnOutcomes ==
    [kind : {"return"}, value : {"[]", "0", "E1"}]
    \cup [kind : {"raise"},
          value : {"FatalTraCIError", "TraCIException", "ValueError",
                   "KeyError", "KeyboardInterrupt", "SystemExit"}]

\* whether `except Exception` catches an exception of class cls:
\* KeyboardInterrupt and SystemExit derive from BaseException only
IsException_Any(cls) == TRUE
IsException(cls) == cls \notin {"KeyboardInterrupt", "SystemExit"}

\* safe_traci_call(fn, swallow=..., default=...), out being what fn does
safe_traci_call(out, swallow, default) ==
    IF out.kind = "return" THEN [kind |-> "return", value |-> out.value]
    ELSE IF out.value = "FatalTraCIError"
         THEN [kind |-> "raise", value |-> out.value]
    ELSE IF IsException(out.value)
         THEN IF swallow THEN [kind |-> "return", value |-> default]
              ELSE [kind |-> "raise", value |-> out.value]
    ELSE [kind |-> "raise", value |-> out.value]

\* the defaults a caller supplies, None being the default of the parameter
SafeDefaults == {"None", "-1", "()", "n/a"}

SafeInit ==
    /\ SafeIdle
    /\ ManagerIdle /\ SessionIdle /\ BotIdle /\ TlsIdle
    /\ QIdle /\ MetIdle /\ LearnIdle

\* a caller calls safe_traci_call
SafeCall ==
    /\ safe_calls < MaxSafeCalls
    /\ \E out \in FnOutcomes, swallow \in BOOLEAN, default \in SafeDefaults :
         safe_ret' = [op |-> "safe_traci_call", fn |-> out, swallow |-> swallow,
                      default |-> default,
                      result |-> safe_traci_call(out, swallow, default)]
    /\ safe_calls' = safe_calls + 1
    /\ UNCHANGED <<amVars, sessVars, botVars, tlsVars, qVars, metVars, learnVars>>

SafeNext == SafeCall

SafeSpec == SafeInit /\ [][SafeNext]_vars

(***************************************************************************)
(* Part 7.  learn_agents.py: the training script.  One simulator process,  *)
(* one agent per signal, a metrics cache, and per episode a world reload,  *)
(* an accident manager when ENABLE_ACCIDENTS, the step loop, and the decay *)
(* and persist of every agent.                                             *)
(***************************************************************************)
\* ACCIDENT_PROB_PER_STEP of the training script is 0.01, below the tenths
\* the manager's draws are kept in: the smallest positive probability, so
\* that a draw of 0.0 spawns and a draw of 0.5 does not, as in the code
LEARN_ACCIDENT_PROB_PER_STEP == 1
LEARN_ACCIDENT_MAX_CONCURRENT == 20
\* ACTIONS of the training script
LearnActions == <<30, 20, 10, 0, -10, -20, -30>>
\* LEARNING_RATE, DISCOUNT_FACTOR, EPSILON, EPSILON_DECAY, MIN_EPSILON
TrainingConfig ==
    [lr |-> <<1, 10>>, gamma |-> <<99, 100>>, epsilon |-> EpsilonOne,
     epsilon_decay |-> <<999, 1000>>, min_epsilon |-> HundredthUnits]

\* a call f(..., k1=..., k2=...) binds when every keyword names a parameter
\* of f; otherwise Python raises TypeError before f's body runs
CallBinds(parameters, keywords) == keywords \subseteq parameters
\* def calculate_global_reward(tls_ids, controlled_edges_dict,
\*                             unique_edges_count, metrics=None)
GlobalRewardParameters ==
    {"tls_ids", "controlled_edges_dict", "unique_edges_count", "metrics"}
\* the keywords of the step loop's call of calculate_global_reward
GlobalRewardKeywords ==
    {"metrics", "speed_weight", "wtime_weight", "occ_weight"}

\* waiting times traci reports for a controlled edge
LearnWaiting == {0, 10, 45}

LearnInit ==
    /\ learn_pc = "import"
    /\ episode = 0
    /\ current_step = 0
    /\ enable_accidents \in BOOLEAN
    /\ waiting = << >>
    /\ last_states = << >>
    /\ last_actions = << >>
    /\ prev_phase_idx = << >>
    /\ transitions = 0
    /\ persisted = 0
    /\ fatal_raised = "none"
    /\ evaluated = {}
    /\ learn_error = "none"
    /\ ManagerIdle /\ SessionIdle /\ BotIdle /\ TlsIdle
    /\ QIdle /\ MetIdle /\ SafeIdle

LearnUnchanged == UNCHANGED <<sessVars, botVars, safeVars, last_phase_idx,
                              phase_calls, q_ret, q_updates, enable_accidents>>

\* the names the module test_agents defines for its importers to call: it
\* has no function at all, its evaluation run being module-level code
TestAgentsFunctions == {}
\* what the module-level evaluation run of test_agents does: it completes
\* (a TraCIException is caught and printed inside), or it raises another
\* exception, which its finally block lets through
EvaluationOutcomes == {"ok", "raise"}

\* `import test_agents` at the head of the script: the module-level code of
\* test_agents runs the whole evaluation, against the tables in its own
\* agents folder, before the training script has run any line of its own
LearnImport ==
    /\ learn_pc = "import"
    /\ evaluated' = evaluated \cup {"import"}
    /\ \E out \in EvaluationOutcomes :
         IF out = "ok"
         THEN learn_pc' = "setup" /\ UNCHANGED learn_error
         ELSE learn_pc' = "failed" /\ learn_error' = "EvaluationError"
    /\ UNCHANGED <<amVars, tls_phase, qVars, metVars, episode, current_step,
                   waiting, last_states, last_actions, prev_phase_idx,
                   transitions, persisted, fatal_raised>>
    /\ LearnUnchanged

\* traci.start, the agent of the signal, the metrics cache and subscribe_all
LearnSetup ==
    /\ learn_pc = "setup"
    /\ agent' = NewAgent(TrainingConfig,
                         create_state_table(PhaseStates, ControlledEdges),
                         LearnActions)
    /\ epsilon' = TrainingConfig.epsilon
    /\ q_table' = NewTable(agent'.states, agent'.actions)
    /\ CommitCache(subscribe_all(Cache))
    /\ UNCHANGED wnow_hist
    /\ learn_pc' = "episode"
    /\ UNCHANGED <<amVars, tls_phase, disk, episode, current_step, waiting,
                   last_states, last_actions, prev_phase_idx, transitions,
                   persisted, fatal_raised, evaluated, learn_error>>
    /\ LearnUnchanged

\* last_actions at the head of an episode, from the last_actions the episode
\* before left: the previous choice is kept
EpisodeLastActions_Kept(prev) == prev

\* last_actions = {tls_id: None for tls_id in tls_ids} at the head of an
\* episode, whatever the episode before left
EpisodeLastActions(prev) == << >>

\* the head of the episode loop: traci.load and one simulation.step, the
\* episode's accident manager, last_states from create_state_for_tls,
\* last_actions None, prev_phase_idx
LearnEpisodeBegin ==
    /\ learn_pc = "episode"
    /\ episode < MaxEpisodes
    /\ subscriptions' = {}
    /\ UNCHANGED <<subscribed, step_counter, lane_stats, edge_stats,
                   waiting_cache, wnow_hist>>
    /\ laneSpeed' = InitLaneSpeed
    /\ laneAllowed' = InitLaneAllowed
    /\ vehicles' = {}
    /\ pois' = {}
    /\ simTime' = 1
    /\ tls_phase' = PhaseAt(1)
    /\ IF enable_accidents
       THEN /\ mode' = "obstacle"
            /\ prob' = LEARN_ACCIDENT_PROB_PER_STEP
            /\ max_concurrent' = LEARN_ACCIDENT_MAX_CONCURRENT
            /\ enable_markers' = FALSE
            /\ active' = << >>
            /\ veh_seq' = 0
       ELSE UNCHANGED <<mode, prob, max_concurrent, enable_markers, active,
                        veh_seq>>
    /\ \E wt \in [Range(ControlledEdges) -> LearnWaiting] :
         /\ waiting' = wt
         /\ last_states' =
                (TlsId :> create_state_for_tls(tls_phase', wt, ControlledEdges))
    /\ last_actions' = EpisodeLastActions(last_actions)
    /\ prev_phase_idx' = (TlsId :> tls_phase')
    /\ transitions' = 0
    /\ current_step' = 0
    /\ learn_pc' = "simstep"
    /\ UNCHANGED <<everOverride, agent, q_table, epsilon, disk, episode,
                   persisted, fatal_raised, evaluated, learn_error>>
    /\ LearnUnchanged

\* traci.simulationStep() of the step loop
LearnSimulationStep ==
    /\ learn_pc = "simstep"
    /\ simTime' = simTime + 1
    /\ tls_phase' = PhaseAt(simTime + 1)
    /\ learn_pc' = "metrics"
    /\ UNCHANGED <<mode, prob, max_concurrent, enable_markers, active, veh_seq,
                   laneSpeed, laneAllowed, vehicles, pois, everOverride>>
    /\ UNCHANGED <<qVars, metVars, episode, current_step, waiting, last_states,
                   last_actions, prev_phase_idx, transitions, persisted, fatal_raised, evaluated,
                   learn_error>>
    /\ LearnUnchanged

\* the classes of exception a protocol call can raise
ProtocolErrors == {"TraCIException", "FatalTraCIError"}

\* traci.simulationStep() raises FatalTraCIError: the handler re-raises it,
\* it is no TraCIException, and the script goes to its finally block
LearnFatal ==
    /\ learn_pc = "simstep"
    /\ fatal_raised' = "simulationStep"
    /\ learn_error' = "FatalTraCIError"
    /\ learn_pc' = "close"
    /\ UNCHANGED <<amVars, tls_phase, qVars, metVars, episode, current_step,
                   waiting, last_states, last_actions, prev_phase_idx,
                   transitions, persisted, evaluated>>
    /\ LearnUnchanged

\* metrics_cache.update_from_subscriptions()
LearnUpdateMetrics ==
    /\ learn_pc = "metrics"
    /\ \E lanes \in ReportingLanes(subscribe_all(Cache).subscriptions),
          w \in WaitingMeans :
         \E results \in [lanes -> LaneReadings] :
           /\ CommitCache(update_from_subscriptions(
                              Cache, results, [e \in MetricEdges |-> w]))
           /\ wnow_hist' = Append(wnow_hist, [e \in MetricEdges |-> w])
    /\ learn_pc' = "accidents"
    /\ UNCHANGED <<amVars, tls_phase, qVars, episode, current_step, waiting,
                   last_states, last_actions, prev_phase_idx, transitions,
                   persisted, fatal_raised, evaluated, learn_error>>
    /\ LearnUnchanged

\* update_from_subscriptions raises at getAllSubscriptionResults, after the
\* counter and the step cache were touched: `except Exception` catches the
\* exception whatever its class, and the handler calls resubscribe, whose
\* own failure is caught too and leaves the cache unsubscribed
LearnMetricsFailed ==
    /\ learn_pc = "metrics"
    /\ \E cls \in ProtocolErrors, again \in BOOLEAN :
         LET c1 == IF subscribed THEN Cache ELSE subscribe_all(Cache)
             c2 == [c1 EXCEPT !.step_counter = c1.step_counter + 1,
                              !.lane_stats = << >>,
                              !.edge_stats = << >>]
         IN  /\ CommitCache(IF again
                            THEN [c2 EXCEPT !.subscribed = FALSE]
                            ELSE resubscribe(c2))
             /\ UNCHANGED wnow_hist
             /\ fatal_raised' = IF cls = "FatalTraCIError" THEN "metrics"
                                ELSE fatal_raised
    /\ learn_pc' = "accidents"
    /\ UNCHANGED <<amVars, tls_phase, qVars, episode, current_step, waiting,
                   last_states, last_actions, prev_phase_idx, transitions,
                   persisted, evaluated, learn_error>>
    /\ LearnUnchanged

\* accident_manager.step(current_step) when ENABLE_ACCIDENTS.  Every
\* protocol call of the manager sits in a try block with `except Exception`,
\* so an exception raised inside the tick, whatever its class, is caught
\* there and never reaches the script's `except FatalTraCIError: raise`
LearnManagerStep ==
    /\ learn_pc = "accidents"
    /\ IF enable_accidents
       THEN \E r \in RandomDraws :
              \E pick \in StepPicks(World, current_step) :
                \E rdur \in (IF pick = "" \/ r >= prob
                             THEN {MinDur} ELSE MinDur..MaxDur),
                   env \in (IF pick = "" \/ r >= prob
                            THEN {"ok"} ELSE EnvChoices(mode)) :
                  \E cls \in (IF env = "ok" THEN {"none"} ELSE ProtocolErrors) :
                    LET res == StepManager(World, current_step, r, pick, rdur, env)
                    IN  /\ res.w.veh_seq <= MaxVehSeq
                        /\ Commit(res.w)
                        /\ fatal_raised' = IF cls = "FatalTraCIError"
                                           THEN "accidents" ELSE fatal_raised
       ELSE UNCHANGED <<active, veh_seq, laneSpeed, laneAllowed, vehicles, pois,
                        fatal_raised>>
    /\ learn_pc' = "expected"
    /\ UNCHANGED <<mode, prob, max_concurrent, enable_markers, simTime,
                   everOverride, tls_phase, qVars, metVars, episode,
                   current_step, waiting, last_states, last_actions,
                   prev_phase_idx, transitions, persisted, evaluated, learn_error>>
    /\ LearnUnchanged

\* traci.simulation.getMinExpectedNumber() == 0: the manager is shut down
\* and the step loop is left
LearnEarlyExit ==
    /\ learn_pc = "expected"
    /\ IF enable_accidents
       THEN Commit(Shutdown(World))
       ELSE UNCHANGED <<active, veh_seq, laneSpeed, laneAllowed, vehicles, pois>>
    /\ learn_pc' = "persist"
    /\ UNCHANGED <<mode, prob, max_concurrent, enable_markers, simTime,
                   everOverride, tls_phase, qVars, metVars, episode,
                   current_step, waiting, last_states, last_actions,
                   prev_phase_idx, transitions, persisted, fatal_raised, evaluated, learn_error>>
    /\ LearnUnchanged

\* vehicles are still expected: cur_phase_idx is read
LearnReadPhases ==
    /\ learn_pc = "expected"
    /\ transitions' = IF tls_phase # prev_phase_idx[TlsId]
                      THEN transitions + 1 ELSE transitions
    /\ learn_pc' = "reward"
    /\ UNCHANGED <<amVars, tls_phase, qVars, metVars, episode, current_step,
                   waiting, last_states, last_actions, prev_phase_idx,
                   persisted, fatal_raised, evaluated, learn_error>>
    /\ LearnUnchanged

\* the call of q_learning.calculate_global_reward with the keywords
\* speed_weight, wtime_weight and occ_weight, which the function does not
\* take: TypeError, which `except traci.exceptions.TraCIException` does not
\* catch, so the script goes to its finally block
LearnGlobalReward ==
    /\ learn_pc = "reward"
    /\ ~CallBinds(GlobalRewardParameters, GlobalRewardKeywords)
    /\ learn_error' = "TypeError"
    /\ learn_pc' = "close"
    /\ UNCHANGED <<amVars, tls_phase, qVars, metVars, episode, current_step,
                   waiting, last_states, last_actions, prev_phase_idx,
                   transitions, persisted, fatal_raised, evaluated>>
    /\ LearnUnchanged

\* after the step loop: decay_epsilon and save_q_table of the agent
LearnPersist ==
    /\ learn_pc = "persist"
    /\ epsilon' = decay_epsilon(agent, epsilon)
    /\ disk' = save_q_table(q_table, disk, QFile)
    /\ persisted' = persisted + 1
    /\ learn_pc' = "teardown"
    /\ UNCHANGED <<amVars, tls_phase, agent, q_table, metVars, episode,
                   current_step, waiting, last_states, last_actions,
                   prev_phase_idx, transitions, fatal_raised, evaluated,
                   learn_error>>
    /\ LearnUnchanged

\* accident_manager.shutdown() at the end of the episode, and the next
\* episode or the end of the episode loop
LearnTeardown ==
    /\ learn_pc = "teardown"
    /\ IF enable_accidents
       THEN Commit(Shutdown(World))
       ELSE UNCHANGED <<active, veh_seq, laneSpeed, laneAllowed, vehicles, pois>>
    /\ episode' = episode + 1
    /\ learn_pc' = IF episode + 1 < MaxEpisodes THEN "episode" ELSE "close"
    /\ UNCHANGED <<mode, prob, max_concurrent, enable_markers, simTime,
                   everOverride, tls_phase, qVars, metVars, current_step,
                   waiting, last_states, last_actions, prev_phase_idx,
                   transitions, persisted, fatal_raised, evaluated, learn_error>>
    /\ LearnUnchanged

\* finally: traci.close(); an exception that is no TraCIException goes on
\* propagating and ends the script before the evaluation
LearnClose ==
    /\ learn_pc = "close"
    /\ learn_pc' = IF learn_error = "none" THEN "evaluate" ELSE "failed"
    /\ UNCHANGED <<amVars, tls_phase, qVars, metVars, episode, current_step,
                   waiting, last_states, last_actions, prev_phase_idx,
                   transitions, persisted, fatal_raised, evaluated, learn_error>>
    /\ LearnUnchanged

\* try: test_agents.main(FILE_NAME) except Exception: pass.  The attribute
\* lookup raises AttributeError when the module has no main, and the
\* handler swallows it: no evaluation runs then
LearnEvaluate ==
    /\ learn_pc = "evaluate"
    /\ evaluated' = IF "main" \in TestAgentsFunctions
                    THEN evaluated \cup {"main"} ELSE evaluated
    /\ learn_pc' = "done"
    /\ UNCHANGED <<amVars, tls_phase, qVars, metVars, episode, current_step,
                   waiting, last_states, last_actions, prev_phase_idx,
                   transitions, persisted, fatal_raised, learn_error>>
    /\ LearnUnchanged

LearnNext ==
    \/ LearnImport
    \/ LearnSetup
    \/ LearnEpisodeBegin
    \/ LearnSimulationStep
    \/ LearnFatal
    \/ LearnUpdateMetrics
    \/ LearnMetricsFailed
    \/ LearnManagerStep
    \/ LearnEarlyExit
    \/ LearnReadPhases
    \/ LearnGlobalReward
    \/ LearnPersist
    \/ LearnTeardown
    \/ LearnClose
    \/ LearnEvaluate

LearnSpec == LearnInit /\ [][LearnNext]_vars

(***************************************************************************)
(* Part 8.  utils/sumo_utils.py: set_phase_duration_for_new_phase.         *)
(* Durations are whole seconds.                                            *)
(***************************************************************************)
\* the phase definitions getCompleteRedYellowGreenDefinition can answer
\* with for the current phase: a nominal duration, minDur, and a maxDur that
\* is unset (-1, 0), below the nominal duration or above it
PhaseDefs == [duration : {10, 30}, minDur : {5, 30}, maxDur : {-1, 0, 20, 50}]

\* max_dur = ph.maxDur if ph.maxDur > 0 else max(base, min_dur)
PhaseUpper(ph) == IF ph.maxDur > 0 THEN ph.maxDur ELSE Max(ph.duration, ph.minDur)

\* the function without the lower clamp
set_phase_duration_for_new_phase_NoFloor(ph, has_logic, delta_sec) ==
    IF ~has_logic THEN None ELSE Some(Min(ph.duration + delta_sec, PhaseUpper(ph)))

\* set_phase_duration_for_new_phase: the duration handed to
\* traci.trafficlight.setPhaseDuration, None when the function returns
\* without writing (no logic, no active program, phase index out of range)
set_phase_duration_for_new_phase(ph, has_logic, delta_sec) ==
    IF ~has_logic THEN None
    ELSE LET base == ph.duration
             min_dur == ph.minDur
             max_dur == PhaseUpper(ph)
             desired_total == base + delta_sec
         IN  Some(Max(min_dur, Min(desired_total, max_dur)))

\* a call set_phase_duration_for_new_phase(tls_id, delta) with delta from
\* the action list, right after the signal entered a phase
TlsSetPhaseDuration ==
    /\ Len(phase_calls) < MaxPhaseCalls
    /\ \E ph \in PhaseDefs, has_logic \in BOOLEAN, d \in Range(LearnActions) :
         LET written == set_phase_duration_for_new_phase(ph, has_logic, d)
         IN  phase_calls' =
                IF written = None THEN phase_calls
                ELSE Append(phase_calls,
                            [phase |-> ph, delta |-> d, duration |-> written[1]])
    /\ UNCHANGED <<amVars, sessVars, botVars, tls_phase, last_phase_idx, libVars>>

PhaseInit == ManagerIdle /\ SessionIdle /\ BotIdle /\ TlsIdle /\ LibIdle

PhaseNext == TlsSetPhaseDuration

PhaseSpec == PhaseInit /\ [][PhaseNext]_vars

(***************************************************************************)
(* Part 9.  test_agents.py: the policy replay.  One agent per signal is    *)
(* built with learning rate 0 and epsilon 0, loads the table a training    *)
(* run persisted, and is asked for an action at every phase change.        *)
(***************************************************************************)
\* actions of test_agents.py
ReplayActions == <<20, 10, 0, -10, -20>>
\* learning_rate=0.00, discount_factor=0.8, epsilon=0.00, epsilon_decay=1,
\* min_epsilon=0.00
ReplayConfig ==
    [lr |-> <<0, 1>>, gamma |-> <<8, 10>>, epsilon |-> 0,
     epsilon_decay |-> <<1, 1>>, min_epsilon |-> 0]

\* a table persisted by the training script, whose rows are keyed by its
\* action list ACTIONS: in one state the longest extension is the best
\* action, in the other two shorter extensions tie
PersistedTable ==
    (<<"0", "Low">> :> [a \in Range(LearnActions) |->
                          IF a = 30 THEN 60 ELSE IF a = 20 THEN 40 ELSE -10])
    @@ (<<"1", "High">> :> [a \in Range(LearnActions) |->
                          IF a \in {20, 10} THEN 30 ELSE IF a = 30 THEN -5 ELSE 0])

\* the table the replay's agent holds after load_q_table
LoadedTable ==
    IF QFile \in DOMAIN disk THEN disk[QFile]
    ELSE NewTable(agent.states, agent.actions)

ReplayInit ==
    /\ agent = NewAgent(ReplayConfig,
                        create_state_table(PhaseStates, ControlledEdges),
                        ReplayActions)
    /\ epsilon = ReplayConfig.epsilon
    /\ q_table = NewTable(agent.states, agent.actions)
    /\ disk \in {<< >>, QFile :> PersistedTable}
    /\ q_ret = [op |-> "none"]
    /\ q_updates = 0
    /\ ManagerIdle /\ SessionIdle /\ BotIdle /\ TlsIdle
    /\ MetIdle /\ SafeIdle /\ LearnIdle

\* agents[tls_id].load_q_table(...), right after the constructor
ReplayLoadQTable ==
    /\ q_ret.op = "none"
    /\ LET res == load_q_table(agent, q_table, disk, QFile)
       IN  /\ q_table' = res.q_table
           /\ q_ret' = [op |-> "load_q_table", filename |-> QFile,
                        printed |-> res.printed, before |-> q_table]
    /\ UNCHANGED <<epsilon, disk, q_updates>>
    /\ QUnchanged

\* a sampled step in which the signal's phase changed: the state is built
\* by create_state_for_tls and the agent chooses
ReplayChooseAction ==
    /\ q_ret.op # "none"
    /\ \E phase \in PhaseIndices, wt \in [Range(ControlledEdges) -> LearnWaiting],
          u \in UniformDraws, k \in 1..Len(LearnActions) :
         LET state == create_state_for_tls(phase, wt, ControlledEdges)
             res == choose_action(agent, q_table, epsilon, state, u, k)
         IN  /\ q_table' = res.q_table
             /\ q_ret' = [op |-> "choose_action", state |-> state,
                          value |-> res.action]
    /\ UNCHANGED <<epsilon, disk, q_updates>>
    /\ QUnchanged

ReplayNext ==
    \/ ReplayLoadQTable
    \/ ReplayChooseAction

ReplaySpec == ReplayInit /\ [][ReplayNext]_vars

(***************************************************************************)
(* Part 10.  learn_agents.py: the agent part of the step loop, lines 252   *)
(* to 301, with the episode head of lines 190 to 202 and the episode end   *)
(* of lines 304 to 307.  The step loop comes to line 252 only when the     *)
(* reward call of lines 242 to 250 returns, which LearnSpec shows it does  *)
(* not with the parameters calculate_global_reward has.  This part follows *)
(* the lines as they are written from the point where that call has        *)
(* returned, the total reward being an input.                              *)
(***************************************************************************)
\* total rewards of a step
TrainRewards == {-RewardOne}
\* waiting times of the controlled edge
TrainWaiting == {45}
\* the draws of random.choice followed
TrainChoices == {1, Len(LearnActions)}
\* the phase definition of the signal's program the duration is set for
TrainPhaseDef == [duration |-> 30, minDur |-> 5, maxDur |-> 50]

TrainInit ==
    /\ agent = NewAgent(TrainingConfig,
                        create_state_table(PhaseStates, ControlledEdges),
                        LearnActions)
    /\ epsilon = TrainingConfig.epsilon
    /\ q_table = NewTable(agent.states, agent.actions)
    /\ disk = << >>
    /\ q_ret = [op |-> "none"]
    /\ q_updates = 0
    /\ learn_pc = "episode"
    /\ episode = 0
    /\ current_step = 0
    /\ enable_accidents = FALSE
    /\ waiting = << >>
    /\ last_states = << >>
    /\ last_actions = << >>
    /\ prev_phase_idx = << >>
    /\ transitions = 0
    /\ persisted = 0
    /\ fatal_raised = "none"
    /\ evaluated = {}
    /\ learn_error = "none"
    /\ ManagerIdle /\ SessionIdle /\ BotIdle /\ TlsIdle
    /\ MetIdle /\ SafeIdle

\* the head of the episode loop as far as the agent is concerned: last_states
\* from create_state_for_tls, last_actions None, prev_phase_idx
TrainEpisodeBegin ==
    /\ learn_pc = "episode"
    /\ episode < MaxEpisodes
    /\ \E phase \in PhaseIndices, wt \in [Range(ControlledEdges) -> TrainWaiting] :
         /\ tls_phase' = phase
         /\ waiting' = wt
         /\ last_states' =
                (TlsId :> create_state_for_tls(phase, wt, ControlledEdges))
         /\ prev_phase_idx' = (TlsId :> phase)
    /\ last_actions' = EpisodeLastActions(last_actions)
    /\ transitions' = 0
    /\ current_step' = 0
    /\ learn_pc' = "steps"
    /\ UNCHANGED <<amVars, sessVars, botVars, last_phase_idx, phase_calls,
                   qVars, metVars, safeVars, episode, enable_accidents,
                   persisted, fatal_raised, evaluated, learn_error>>

\* one iteration of the step loop from line 252 on: the state of the signal,
\* the update of the agent with the pair kept from its last choice, and, when
\* the phase index changed, the next choice and the duration it sets
TrainAgentStep ==
    /\ learn_pc = "steps"
    /\ current_step < MaxTrainSteps
    /\ \E phase \in PhaseIndices, wt \in [Range(ControlledEdges) -> TrainWaiting],
          total_reward \in TrainRewards, u \in UniformDraws, k \in TrainChoices :
         LET current_state == create_state_for_tls(phase, wt, ControlledEdges)
             updates == /\ TlsId \in DOMAIN last_states
                        /\ TlsId \in DOMAIN last_actions
             q1 == IF updates
                   THEN update_q_table(agent, q_table, last_states[TlsId],
                                       last_actions[TlsId], total_reward,
                                       current_state)
                   ELSE q_table
             changed == phase # prev_phase_idx[TlsId]
             res == choose_action(agent, q1, epsilon, current_state, u, k)
             written == set_phase_duration_for_new_phase(TrainPhaseDef, TRUE,
                                                         res.action)
         IN  /\ changed => Len(phase_calls) < MaxTrainChoices
             /\ tls_phase' = phase
             /\ waiting' = wt
             /\ q_updates' = IF updates THEN q_updates + 1 ELSE q_updates
             /\ q_ret' = IF updates
                         THEN [op |-> "update_q_table",
                               state |-> last_states[TlsId],
                               action |-> last_actions[TlsId],
                               reward |-> total_reward,
                               next_state |-> current_state,
                               episode |-> episode, step |-> current_step]
                         ELSE [op |-> "no update", episode |-> episode,
                               step |-> current_step]
             /\ IF changed
                THEN /\ q_table' = res.q_table
                     /\ phase_calls' =
                            Append(phase_calls,
                                   [episode |-> episode, step |-> current_step,
                                    state |-> current_state,
                                    delta |-> res.action,
                                    duration |-> written[1]])
                     /\ last_states' = (TlsId :> current_state)
                     /\ last_actions' = (TlsId :> res.action)
                     /\ transitions' = transitions + 1
                ELSE /\ q_table' = q1
                     /\ UNCHANGED <<phase_calls, last_states, last_actions,
                                    transitions>>
             /\ prev_phase_idx' = (TlsId :> phase)
    /\ current_step' = current_step + 1
    /\ UNCHANGED <<amVars, sessVars, botVars, last_phase_idx, agent, epsilon,
                   disk, metVars, safeVars, learn_pc, episode,
                   enable_accidents, persisted, fatal_raised, evaluated,
                   learn_error>>

\* the end of an episode, by the early exit of line 230 or at the end of the
\* step loop: decay_epsilon and save_q_table
TrainEpisodeEnd ==
    /\ learn_pc = "steps"
    /\ epsilon' = decay_epsilon(agent, epsilon)
    /\ disk' = save_q_table(q_table, disk, QFile)
    /\ persisted' = persisted + 1
    /\ episode' = episode + 1
    /\ learn_pc' = "episode"
    /\ UNCHANGED <<amVars, sessVars, botVars, tlsVars, agent, q_table, q_ret,
                   q_updates, metVars, safeVars, current_step,
                   enable_accidents, waiting, last_states, last_actions,
                   prev_phase_idx, transitions, fatal_raised, evaluated,
                   learn_error>>

TrainNext ==
    \/ TrainEpisodeBegin
    \/ TrainAgentStep
    \/ TrainEpisodeEnd

TrainSpec == TrainInit /\ [][TrainNext]_vars

-----------------------------------------------------------------------------
\* Properties of the accident manager, checked under Spec

\* the mode a create_accident_at call with mode argument m works in
UseMode(m) == Lower(IF m # "" THEN m ELSE mode)

\* C1: as long as no create_accident_at call has passed
\* ignore_max_concurrent, the number of active accidents never exceeds
\* max_concurrent
C1_ConcurrencyCeiling ==
    (~everOverride) => Cardinality(DOMAIN active) <= max_concurrent

\* the ceiling is reached while another candidate lane is still free, and no
\* call has overridden the ceiling
C1_Witness ==
    /\ ~everOverride
    /\ Cardinality(DOMAIN active) = max_concurrent
    /\ \E l \in LaneCandidates : l \notin DOMAIN active

\* C2: a step call with step_idx >= end_step ends the accident (its record is
\* no longer in active afterwards), and a step call with step_idx < end_step
\* leaves the record in place, so the accident ends at the first step call
\* whose index has reached end_step and never before; for every step index,
\* random draw, lane choice, duration and outcome of the obstacle spawn
C2_ExpiryAtEndStep ==
    \A i \in 0..MaxTime, r \in RandomDraws, d \in MinDur..MaxDur :
      \A e \in EnvChoices(mode), pick \in StepPicks(World, i) :
        LET after == StepManager(World, i, r, pick, d, e).w.active
        IN  \A l \in DOMAIN active :
              IF i >= active[l].end_step
              THEN ~(l \in DOMAIN after /\ after[l] = active[l])
              ELSE l \in DOMAIN after /\ after[l] = active[l]

\* an active accident that some step index has reached and some has not
C2_Witness ==
    \E l \in DOMAIN active :
        /\ active[l].end_step <= MaxTime
        /\ active[l].end_step > 0

\* C3: once an accident is destroyed its lane has the maximum speed and the
\* allowed classes it had before the accident and its obstacle vehicle and
\* marker are gone, whatever behaviour was applied at creation: a candidate
\* lane with no active accident is in its pre-accident state, and every
\* obstacle vehicle and marker in the simulation belongs to an active accident
C3_DestroyRestores ==
    /\ \A l \in LaneCandidates \ DOMAIN active :
          /\ laneSpeed[l] = InitLaneSpeed[l]
          /\ laneAllowed[l] = InitLaneAllowed[l]
    /\ vehicles \subseteq {active[l].obstacle_veh_id : l \in DOMAIN active}
    /\ pois \subseteq {active[l].marker_poi_id : l \in DOMAIN active}

\* C4: the active dictionary holds at most one accident per lane id: a record
\* is stored under its own lane id, create_accident_at on a lane with an
\* active accident creates nothing and leaves the simulation and the records
\* as they are, and a step call whose random draw lets it spawn never
\* replaces the record of a lane whose accident has not expired
C4_OnePerLane ==
    /\ \A l \in DOMAIN active : active[l].lane_id = l
    /\ \A l \in DOMAIN active, ignore \in BOOLEAN, m \in ModeArgs, d \in DurChoices :
          \A e \in EnvChoices(UseMode(m)) :
              LET res == CreateAccidentAt(World, l, d[1], d[2], d[3], m, ignore, e)
              IN  (~res.ret) /\ res.w = World
    /\ \A i \in 0..MaxTime, d \in MinDur..MaxDur :
          \A e \in EnvChoices(mode), pick \in StepPicks(World, i) :
              LET after == StepManager(World, i, 0, pick, d, e).w.active
              IN  \A l \in DOMAIN active \ ToClose(World, i) :
                      l \in DOMAIN after /\ after[l] = active[l]

\* a lane has an unexpired accident while step could still spawn one: the
\* ceiling is not reached and another candidate lane is free
C4_Witness ==
    /\ \E l \in DOMAIN active : active[l].end_step > MaxTime
    /\ Cardinality(DOMAIN active) < max_concurrent
    /\ \E l \in LaneCandidates : l \notin DOMAIN active

\* the four failure cases of create_accident_at for lane l
CreateRefused(l, ignore) ==
    \/ ~LaneExists(l)
    \/ l \in {":J_0"}
    \/ (~ignore) /\ Cardinality(DOMAIN active) >= max_concurrent
    \/ l \in DOMAIN active

\* C5: create_accident_at returns none and changes neither the records nor
\* the simulation when the lane does not exist, is an internal junction lane,
\* has an active accident, or the ceiling is reached without an override; in
\* every other case with a known mode it returns a record, and that record is
\* the one stored in active under the lane id
C5_CreateAccidentAt ==
    \A l \in LaneIds, ignore \in BOOLEAN, m \in ModeArgs, d \in DurChoices :
      \A e \in EnvChoices(UseMode(m)) :
        LET res == CreateAccidentAt(World, l, d[1], d[2], d[3], m, ignore, e)
        IN  IF CreateRefused(l, ignore)
            THEN (~res.ret) /\ res.w = World
            ELSE UseMode(m) \in {"lane_block", "obstacle"} =>
                    /\ res.ret
                    /\ l \in DOMAIN res.w.active
                    /\ res.w.active[l] = res.acc
                    /\ res.acc.lane_id = l

\* an accident is active with the ceiling reached and a candidate lane free,
\* so that calls are refused for the active lane and for the ceiling while an
\* overriding call on the free lane succeeds
C5_Witness ==
    /\ active # << >>
    /\ Cardinality(DOMAIN active) >= max_concurrent
    /\ \E l \in LaneCandidates \ DOMAIN active :
          /\ CreateAccidentAt(World, l, FALSE, 0, MinDur, "", TRUE, "ok").ret
          /\ ~CreateAccidentAt(World, l, FALSE, 0, MinDur, "", FALSE, "ok").ret

\* C6: clear_accident returns true exactly when the lane had an active
\* accident, afterwards the lane has none and the other accidents are
\* untouched; clear_all returns the number of accidents that were active and
\* leaves active empty
C6_Clear ==
    /\ \A l \in LaneIds :
          LET res == ClearAccident(World, l)
          IN  /\ res.ret = (l \in DOMAIN active)
              /\ l \notin DOMAIN res.w.active
              /\ \A k \in DOMAIN active \ {l} :
                    k \in DOMAIN res.w.active /\ res.w.active[k] = active[k]
    /\ LET res == ClearAll(World)
       IN  /\ res.ret = Cardinality(DOMAIN active)
           /\ DOMAIN res.w.active = {}

\* two accidents are active, so that clearing one leaves another behind
C6_Witness ==
    /\ Cardinality(DOMAIN active) = 2
    /\ \E l \in LaneIds : ~ClearAccident(World, l).ret

\* the severity the impact of an edge is bounded by, in tenths
C7_Bound == IF mode = "lane_block" THEN SeverityLaneBlock ELSE SeverityObstacle

\* C7: every value get_edge_impacts returns lies between 0 and the severity
\* (1.0 when the manager's mode is lane_block, 0.7 otherwise), and it is 0 for
\* an edge none of whose lanes has an active accident
C7_EdgeImpacts ==
    \A edge_ids \in SUBSET QueryEdges :
        LET imp == GetEdgeImpacts(World, edge_ids, SeverityLaneBlock,
                                  SeverityObstacle)
        IN  \A e \in edge_ids :
              /\ imp[e][2] > 0
              /\ imp[e][1] >= 0
              /\ imp[e][1] * 10 <= C7_Bound * imp[e][2]
              /\ (\A l \in DOMAIN active : ~(LaneExists(l) /\ EdgeOf(l) = e))
                     => imp[e][1] = 0

\* both lanes of edge E1 have an active accident while edge E2 has none
C7_Witness ==
    /\ {"E1_0", "E1_1"} \subseteq DOMAIN active
    /\ GetEdgeImpacts(World, QueryEdges, SeverityLaneBlock,
                      SeverityObstacle)["E1"][1] > 0

-----------------------------------------------------------------------------
\* Properties of the interactive session, checked under SessionSpec

\* the handler answered 400 with ok:false and left the queue as it was
Rejected(res) ==
    /\ res.status = 400
    /\ ~res.ok
    /\ res.q = command_queue
    /\ res.n = enq_count

\* the handler answered 200 with ok:true and appended exactly one command
\* of the given type to the queue
Enqueued(res, type) ==
    /\ res.status = 200
    /\ res.ok
    /\ Len(res.q) = Len(command_queue) + 1
    /\ SubSeq(res.q, 1, Len(command_queue)) = command_queue
    /\ res.q[Len(res.q)].cmd.type = type

Queued == {command_queue[i].seq : i \in 1..Len(command_queue)}

\* the numbers of the commands handed to the accident manager
Applied == {applied[i] : i \in 1..Len(applied)}

-----------------------------------------------------------------------------
\* Properties of the bot, checked under BotSpec

\* the update asks for a change of the simulation: the /clear_all command, a
\* location, or the confirmation button of clear-all
StateChanging(u) ==
    \/ u.text = "clear_all"
    \/ u.location # None
    \/ u.kind = "callback_query" /\ u.data = "clear_all_confirm"

\* C10: no POST to /api/spawn_geo or /api/clear_all is ever sent on behalf
\* of a user outside the trusted set, such a user gets a denial response to
\* an update that asks for one, and a /clear_all command of a trusted user
\* whose request reaches the API leaves exactly one clear-all command
\* enqueued
C10_AccessControl ==
    /\ bot_sent_for \subseteq TRUSTED_USER_IDS
    /\ bot_handled > 0 =>
          /\ (StateChanging(bot_last.update)
              /\ bot_last.update.user \notin TRUSTED_USER_IDS)
                 => /\ bot_last.posts = << >>
                    /\ bot_last.queued = << >>
                    /\ \E i \in 1..Len(bot_last.replies) :
                          bot_last.replies[i] = "denial"
          /\ (bot_last.update.text = "clear_all"
              /\ bot_last.update.user \in TRUSTED_USER_IDS
              /\ bot_last.net = "ok")
                 => /\ Len(bot_last.queued) = 1
                    /\ bot_last.queued[1].cmd = ClearCmd(None)

\* the part of C10 that holds of every update: nothing is sent or enqueued
\* for an untrusted user, and a trusted /clear_all that reaches the API
\* enqueues exactly one clear-all command
BotNoRequestForUntrusted ==
    /\ bot_sent_for \subseteq TRUSTED_USER_IDS
    /\ bot_handled > 0 =>
          /\ bot_last.update.user \notin TRUSTED_USER_IDS
                 => bot_last.posts = << >> /\ bot_last.queued = << >>
          /\ (bot_last.update.text = "clear_all"
              /\ bot_last.update.user \in TRUSTED_USER_IDS
              /\ bot_last.net = "ok")
                 => /\ Len(bot_last.queued) = 1
                    /\ bot_last.queued[1].cmd = ClearCmd(None)

\* an untrusted user's request is denied whenever the update is a new
\* message or a button press
BotDenialOnNewMessage ==
    (/\ bot_handled > 0
     /\ StateChanging(bot_last.update)
     /\ bot_last.update.user \notin TRUSTED_USER_IDS
     /\ bot_last.update.kind # "edited_message")
        => \E i \in 1..Len(bot_last.replies) : bot_last.replies[i] = "denial"


-----------------------------------------------------------------------------
\* Properties of QLearningAgent, checked under QSpec

\* |x|
Abs(x) == IF x < 0 THEN -x ELSE x

\* states, actions and rewards of the updates the properties range over
UpdateStates == CallStates \cup {<<"0", "Medium">>}
UpdateRewards == {-2 * QuarterUnits, 37, RewardOne}
\* number of successive updates with one (s, a, r, s') the property follows
Repeats == 4

\* ten times the distance from the value x of Q(s,a) to the target
\* r + 0.9 * m, m being max Q(s',.), signed
Gap10(x, r, m) == 10 * x - (10 * r + 9 * m)

\* an update that takes Q(s,a) from x to y keeps the distance to the target
\* from growing and Q(s,a) on its side of the target
StepApproaches(x, y, r, m) ==
    /\ Abs(Gap10(y, r, m)) <= Abs(Gap10(x, r, m))
    /\ ~(Gap10(x, r, m) < 0 /\ Gap10(y, r, m) > 0)
    /\ ~(Gap10(x, r, m) > 0 /\ Gap10(y, r, m) < 0)

\* n further updates from the value x, Q(s',.) and so m staying as they are
RECURSIVE KeepsApproaching(_, _, _, _, _)
KeepsApproaching(ag, x, r, m, n) ==
    IF n = 0 THEN TRUE
    ELSE LET y == NewQ(ag, x, r, m)
         IN  StepApproaches(x, y, r, m) /\ KeepsApproaching(ag, y, r, m, n - 1)

\* an update of table q with (st, a, r, nxt) that leaves the row of nxt as
\* it was approaches the target, and so do the updates that repeat it
Approaches(ag, q, st, a, r, nxt) ==
    LET q1 == update_q_table(ag, q, st, a, r, nxt)
        m == MaxOf({Row(ag, q, nxt)[b] : b \in Range(ag.actions)})
    IN  q1[nxt] = Row(ag, q, nxt) =>
          /\ StepApproaches(Row(ag, q, st)[a], q1[st][a], r, m)
          /\ KeepsApproaching(ag, q1[st][a], r, m, Repeats)

\* C11: with learning rate 0.1 and discount 0.9, updates repeated with a
\* fixed (s, a, r, s') while Q(s',.) stays constant never increase the
\* distance between Q(s,a) and r + 0.9 * max Q(s',.) and never move Q(s,a) to
\* the other side of that target
C11_UpdateApproachesTarget ==
    (agent.lr = <<1, 10>> /\ agent.gamma = <<9, 10>>) =>
        \A st \in UpdateStates, a \in Range(agent.actions),
           r \in UpdateRewards, nxt \in CallStates :
            Approaches(agent, q_table, st, a, r, nxt)

\* an update has been made towards a target that rests on a non-zero
\* Q(s',.), and a further update with the same sample moves Q(s,a) again
C11_Witness ==
    /\ q_ret.op = "update_q_table"
    /\ q_ret.state # q_ret.next_state
    /\ agent.lr = <<1, 10>> /\ agent.gamma = <<9, 10>>
    /\ MaxOf({Row(agent, q_table, q_ret.next_state)[b] :
                b \in Range(agent.actions)}) # 0
    /\ q_table[q_ret.state][q_ret.action] # 0
    /\ update_q_table(agent, q_table, q_ret.state, q_ret.action, q_ret.reward,
                      q_ret.next_state) # q_table

\* C12: with epsilon 0, choose_action returns, whatever the table holds and
\* whatever the random draws, an action whose value in the state's row is
\* the largest value of that row
C12_GreedyChoice ==
    epsilon = 0 =>
        \A state \in UpdateStates, u \in UniformDraws,
           k \in 1..Len(agent.actions) :
            LET row == Row(agent, q_table, state)
                res == choose_action(agent, q_table, epsilon, state, u, k)
            IN  /\ res.action \in Range(agent.actions)
                /\ \A b \in Range(agent.actions) : row[b] <= row[res.action]

\* a greedy agent has chosen in a state whose row has a single largest
\* value, which is not the value of the first action
C12_Witness ==
    /\ epsilon = 0
    /\ q_ret.op = "choose_action"
    /\ q_ret.state \in DOMAIN q_table
    /\ LET row == q_table[q_ret.state]
       IN  /\ \A b \in Range(agent.actions) \ {q_ret.value} :
                 row[b] < row[q_ret.value]
           /\ q_ret.value # agent.actions[1]

\* C18: load_q_table on a path where no file exists raises nothing, prints
\* its notice and leaves the agent's table as it was
C18_LoadMissing ==
    \A filename \in FileNames \ DOMAIN disk :
        LET res == load_q_table(agent, q_table, disk, filename)
        IN  res.q_table = q_table /\ res.printed

\* load_q_table has been called on a missing path by an agent that still
\* has the zero table of its construction
C18_Witness ==
    /\ q_ret.op = "load_q_table"
    /\ q_ret.filename \notin DOMAIN disk
    /\ q_ret.printed
    /\ q_table = q_ret.before
    /\ q_table = NewTable(agent.states, agent.actions)

-----------------------------------------------------------------------------
\* Property of decay_epsilon, checked under DecaySpec

\* C13: from epsilon 1.0 with decay 0.995 and floor 0.01, epsilon is never
\* below 0.01, no decay_epsilon call increases it, once it equals 0.01 it
\* stays 0.01, and it equals 0.01 after finitely many calls
C13_EpsilonFloor ==
    /\ [](epsilon >= HundredthUnits)
    /\ [][epsilon' <= epsilon]_vars
    /\ [](epsilon = HundredthUnits => [](epsilon = HundredthUnits))
    /\ <>(epsilon = HundredthUnits)

\* decay_epsilon has been called with epsilon at the floor
C13_Witness ==
    /\ q_ret.op = "decay_epsilon"
    /\ q_ret.old = HundredthUnits
    /\ epsilon = HundredthUnits

-----------------------------------------------------------------------------
\* Properties of the module's functions, checked under FnSpec

\* C14: create_state_for_tls returns the phase index followed, edge by edge
\* in order, by Low for a waiting time below 10, Medium from 10 and below
\* 30, High from 30
C14_StateForTls ==
    q_ret.op = "create_state_for_tls" =>
        /\ Len(q_ret.value) = 1 + Len(q_ret.edges)
        /\ q_ret.value[1] = IndexKey(q_ret.phase)
        /\ \A i \in 1..Len(q_ret.edges) :
             LET w == q_ret.wt[q_ret.edges[i]]
             IN  q_ret.value[i + 1] =
                   (IF w < 10 THEN "Low"
                    ELSE IF w >= 10 /\ w < 30 THEN "Medium" ELSE "High")

\* a state has been built for two edges, one waiting exactly 10 and one
\* exactly 30
C14_Witness ==
    /\ q_ret.op = "create_state_for_tls"
    /\ q_ret.edges = <<"E2", "E1">>
    /\ q_ret.wt["E2"] = 10 /\ q_ret.wt["E1"] = 30
    /\ q_ret.value = <<"1", "Medium", "High">>

\* C19: calculate_total_reward returns weight_local * local +
\* weight_global * global, each product rounded to the unit, and 0.25 for
\* local 1.0, global -0.5 and both weights 0.5
C19_TotalReward ==
    q_ret.op = "calculate_total_reward" =>
        LET wl == q_ret.weight_local
            wg == q_ret.weight_global
            exact == q_ret.local * wl[1] * wg[2] + q_ret.global * wg[1] * wl[2]
            den == wl[2] * wg[2]
        IN  /\ Abs(q_ret.value * den - exact) <= den
            /\ ((q_ret.local * wl[1]) % wl[2] = 0
                /\ (q_ret.global * wg[1]) % wg[2] = 0)
                   => q_ret.value * den = exact
            /\ (q_ret.local = RewardOne /\ q_ret.global = -2 * QuarterUnits
                /\ wl = <<1, 2>> /\ wg = <<1, 2>>)
                   => q_ret.value = QuarterUnits

\* the call with local 1.0, global -0.5 and both weights 0.5 has been made
C19_Witness ==
    /\ q_ret.op = "calculate_total_reward"
    /\ q_ret.local = RewardOne /\ q_ret.global = -2 * QuarterUnits
    /\ q_ret.weight_local = <<1, 2>> /\ q_ret.weight_global = <<1, 2>>
    /\ q_ret.value = QuarterUnits

-----------------------------------------------------------------------------
\* Property of RewardMetricsCache, checked under MetSpec

\* the sum of the function f over the lanes in S
RECURSIVE SumOver(_, _)
SumOver(S, f) ==
    IF S = {} THEN 0
    ELSE LET l == CHOOSE l \in S : TRUE
         IN  f[l] + SumOver(S \ {l}, f)

\* x is the quotient num / den rounded to the nearest unit
Nearest(x, num, den) == 2 * Abs(x * den - num) <= den

\* C15: after update_from_subscriptions, each edge's aggregate over its
\* lanes that reported has veh the sum of the lane vehicle counts, halting
\* the sum of the lane halting counts, speed the mean of the lane speeds
\* weighted by vehicle count (0 without vehicles) and occ the arithmetic
\* mean of the lane occupancies
C15_EdgeAggregates ==
    step_counter > 0 =>
        \A e \in DOMAIN EdgeLanes :
            LET R == Range(EdgeLanes[e]) \cap DOMAIN lane_stats
                Veh == [l \in R |-> lane_stats[l].veh]
                Halting == [l \in R |-> lane_stats[l].halting]
                Weighted == [l \in R |-> lane_stats[l].speed * lane_stats[l].veh]
                Occ == [l \in R |-> lane_stats[l].occ]
                agg == edge_stats[e]
            IN  /\ agg.veh = SumOver(R, Veh)
                /\ agg.halting = SumOver(R, Halting)
                /\ IF SumOver(R, Veh) = 0 THEN agg.speed = 0
                   ELSE Nearest(agg.speed, SumOver(R, Weighted), SumOver(R, Veh))
                /\ IF R = {} THEN agg.occ = 0
                   ELSE Nearest(agg.occ, SumOver(R, Occ), Cardinality(R))

\* an update has aggregated an edge one of whose lanes reported no vehicle
\* and a speed, and the other vehicles and another speed
C15_Witness ==
    /\ step_counter > 0
    /\ {"E1_0", "E1_1"} \subseteq DOMAIN lane_stats
    /\ lane_stats["E1_0"].veh = 0 /\ lane_stats["E1_0"].speed > 0
    /\ lane_stats["E1_1"].veh = 2
    /\ edge_stats["E1"].speed = lane_stats["E1_1"].speed
    /\ edge_stats["E1"].veh = 2

-----------------------------------------------------------------------------
\* Properties of safe_traci_call, checked under SafeSpec

\* C17 as stated: fn's result when fn succeeds, the fatal protocol error
\* re-raised, and for any other exception the default when swallow is true
\* and the exception when it is false
C17_Original ==
    safe_ret.op = "safe_traci_call" =>
        LET out == safe_ret.fn
            res == safe_ret.result
        IN  /\ out.kind = "return" => res = out
            /\ (out.kind = "raise" /\ out.value = "FatalTraCIError") => res = out
            /\ (out.kind = "raise" /\ out.value # "FatalTraCIError") =>
                 IF safe_ret.swallow
                 THEN res = [kind |-> "return", value |-> safe_ret.default]
                 ELSE res = out

\* C17: fn's result when fn succeeds, the fatal protocol error re-raised,
\* for any other exception derived from Exception the default when swallow
\* is true and the exception when it is false, and an exception that does
\* not derive from Exception re-raised whatever swallow is
C17_SafeCall ==
    safe_ret.op = "safe_traci_call" =>
        LET out == safe_ret.fn
            res == safe_ret.result
        IN  /\ out.kind = "return" => res = out
            /\ (out.kind = "raise" /\ out.value = "FatalTraCIError") => res = out
            /\ (out.kind = "raise"
                /\ out.value \in {"TraCIException", "ValueError", "KeyError"}) =>
                 IF safe_ret.swallow
                 THEN res = [kind |-> "return", value |-> safe_ret.default]
                 ELSE res = out
            /\ (out.kind = "raise"
                /\ out.value \in {"KeyboardInterrupt", "SystemExit"}) => res = out

\* a call with swallow true whose fn raised ValueError has returned the
\* caller's default
C17_Witness ==
    /\ safe_ret.op = "safe_traci_call"
    /\ safe_ret.swallow
    /\ safe_ret.fn = [kind |-> "raise", value |-> "ValueError"]
    /\ safe_ret.default = "n/a"
    /\ safe_ret.result = [kind |-> "return", value |-> "n/a"]


-----------------------------------------------------------------------------
\* Properties of the training script, checked under LearnSpec

\* the training script is over: its finally block has run and an exception
\* has ended it, or the evaluation call has returned
LearnOver == learn_pc \in {"failed", "done"}
\* the episodes whose step loop was entered by the time the script is over
EpisodesBegun ==
    episode + (IF learn_error \in {"TypeError", "FatalTraCIError"} THEN 1 ELSE 0)
\* a table with at least one non-zero value
HasNonZero(q) == \E st \in DOMAIN q : \E a \in DOMAIN q[st] : q[st][a] # 0

\* C16: with accidents disabled and a simulator that does not fail, every
\* training episode on the one-signal network ends with one persisted
\* Q-table for the signal, and the persisted table holds a non-zero value
\* whenever the step loop saw a phase transition.  Violated: the first step
\* with vehicles expected raises TypeError at the global reward call, and
\* the episode persists nothing.
C16_EpisodePersists ==
    (~enable_accidents /\ LearnOver /\ EpisodesBegun > 0
     /\ learn_error # "FatalTraCIError")
        => /\ persisted = EpisodesBegun
           /\ QFile \in DOMAIN disk
           /\ transitions > 0 => HasNonZero(disk[QFile])

-----------------------------------------------------------------------------
\* Properties of the signals in the interactive session, checked under
\* SessionSpec

\* C20: when the step of a loop iteration is done and the signal's phase
\* differs from its phase before the step, a phase duration has been set
\* for the signal.  Violated: the loop reads last_phase_idx and never
\* chooses an action nor sets a phase duration.
C20_ActionOnPhaseChange ==
    (loop_pc \in {"process", "close"} /\ tls_phase # last_phase_idx)
        => phase_calls # << >>

-----------------------------------------------------------------------------
\* Properties of the session's threads and exit paths, checked under
\* SessionSpec

\* C21: whenever the finally block is about to attempt the accident
\* manager's shutdown, the simulator connection is still open.  Violated:
\* when the step loop ends by its budget or by the early exit, traci.close()
\* of line 370 runs before the finally block.
C21_ShutdownBeforeClose == loop_pc = "finally" => connected

\* a step of an HTTP handler thread that enqueues, and a step that changes
\* the set of active accidents
HandlerEnqueues == enq_count' # enq_count
ActiveChanges == active' # active

\* C22: a handler thread's step appends one command to the queue and leaves
\* the accident manager, the simulator, the connection and the signals
\* alone; every change of the active set is made by a step of the main
\* thread, in process_commands, in the manager's tick or in the finally block.
C22_HandlersOnlyEnqueue ==
    [][/\ HandlerEnqueues =>
            /\ UNCHANGED <<amVars, connected, applied, tlsVars, loop_pc, step>>
            /\ enq_count' = enq_count + 1
            /\ Len(command_queue') = Len(command_queue) + 1
            /\ SubSeq(command_queue', 1, Len(command_queue)) = command_queue
       /\ ActiveChanges =>
            /\ ~HandlerEnqueues
            /\ loop_pc \in {"process", "manage", "finally"}]_vars

\* a handler has enqueued a command while accidents were active, and the
\* main thread has since changed the active set by applying a command
C22_Witness ==
    /\ enq_count >= 2
    /\ Len(applied) >= 1
    /\ active # << >>
    /\ command_queue # << >>

-----------------------------------------------------------------------------
\* Properties of the training script's error handling and episode loop,
\* checked under LearnSpec

\* C23: once a protocol call of a training step has raised the fatal
\* protocol error, the script has left the step loop with that error.
\* Violated: the error is caught by `except Exception` around the metrics
\* refresh and by the accident manager's own handlers, and the step goes on.
C23_FatalPropagates ==
    fatal_raised # "none"
        => /\ learn_error = "FatalTraCIError"
           /\ learn_pc \in {"close", "failed"}


\* the subscriptions of a freshly subscribed cache: one per lane of the
\* edges of interest
AllSubscriptions == resubscribe(Cache).subscriptions

\* C24: whenever the step loop is about to refresh the metrics cache, the
\* simulator holds the cache's lane subscriptions, the cache having been
\* resubscribed since the last world reset.  Violated: the episode head
\* reloads the world and calls no resubscribe, so the first refresh of
\* every episode reads no subscription at all.
C24_ResubscribedAfterReset ==
    learn_pc = "metrics" => subscriptions = AllSubscriptions

-----------------------------------------------------------------------------
\* Properties of the agent's table, checked under QSpec

\* the waiting times that make create_state_for_tls return each category
CategoryWaiting == {0, 10, 30}

\* C25: every state create_state_for_tls can return for the signal (a phase
\* index of its program with any categories of its controlled edges) is a
\* key of the table the constructor builds from create_state_table, with
\* value 0 for every action.  Violated: create_state_table keys the states
\* by the phases' state strings, create_state_for_tls by the phase index.
C25_StatesPrePopulated ==
    \A phase \in PhaseIndices :
      \A wt \in [Range(ControlledEdges) -> CategoryWaiting] :
        LET state == create_state_for_tls(phase, wt, ControlledEdges)
            table == NewTable(agent.states, agent.actions)
        IN  /\ state \in DOMAIN table
            /\ \A a \in Range(agent.actions) : table[state][a] = 0


\* C26: once a step in which the step loop saw the signal's phase differ
\* from the previous step's is over, the agent has chosen an action, a phase
\* duration has been set, and the agent's previous action is recorded.
\* Violated: the global reward call of that step raises TypeError before
\* the choice is reached.
C26_ChoiceOnPhaseChange ==
    (transitions > 0 /\ learn_pc # "reward")
        => /\ TlsId \in DOMAIN last_actions
           /\ phase_calls # << >>

\* epsilon after n calls of decay_epsilon since construction
RECURSIVE DecayedTimes(_)
DecayedTimes(n) ==
    IF n = 0 THEN TrainingConfig.epsilon
    ELSE decay_epsilon(agent, DecayedTimes(n - 1))
\* the script is between episodes or past the episode loop, and no failure
\* of the simulator or of the import has ended it
BetweenEpisodes ==
    /\ learn_pc \in {"episode", "close", "failed", "evaluate", "done"}
    /\ learn_error \notin {"FatalTraCIError", "EvaluationError"}

\* C27: whenever the script is between episodes or past the episode loop,
\* every episode begun so far has been followed by one epsilon decay and
\* one Q-table persist, and no accident is active.  Violated: an episode
\* cut short by the TypeError of the global reward call is followed by
\* neither.
C27_EpisodeFollowedByPersist ==
    BetweenEpisodes
        => /\ persisted = EpisodesBegun
           /\ epsilon = DecayedTimes(EpisodesBegun)
           /\ active = << >>

\* what does hold: every episode that left the step loop by the early exit
\* was followed by one decay, one persist and a manager without accidents
EarlyExitPersists ==
    (learn_pc \in {"episode", "evaluate", "done"})
        => /\ persisted = episode
           /\ epsilon = DecayedTimes(episode)
           /\ active = << >>
           /\ episode > 0 => QFile \in DOMAIN disk

\* C28: the evaluation has run only if the training loop is over and the
\* signal's Q-table has been persisted, and no exception of the evaluation
\* has ended the training script.  Violated: the evaluation runs when the
\* script imports test_agents, before any training, and its exceptions end
\* the script; the call after training runs no evaluation.
C28_EvaluationAfterTraining ==
    /\ evaluated # {} => (learn_pc = "done" /\ QFile \in DOMAIN disk)
    /\ learn_error # "EvaluationError"


\* the ways _spawn_obstacle fails
SpawnFailures == SpawnOutcomes \ {"ok"}

\* the record stored for lane l is a lane_block accident of duration dur:
\* no obstacle vehicle has been added, the lane's max speed is 0 and the
\* classes in use are disallowed on it
FallbackApplied(w, l, dur) ==
    /\ l \in DOMAIN w.active
    /\ w.active[l].lane_id = l
    /\ w.active[l].end_step - w.active[l].start_step = dur
    /\ w.active[l].obstacle_veh_id = NoVeh
    /\ w.laneSpeed[l] = 0
    /\ w.laneAllowed[l] = VClasses \ UsedVClasses
    /\ w.vehicles \subseteq World.vehicles

\* C29: in obstacle mode, when _spawn_obstacle raises, the accident is still
\* registered for the chosen lane with the duration that was sampled (or
\* given), without an obstacle vehicle, and the lane is blocked: max speed 0
\* and the classes in use disallowed.  For a tick of step() and for
\* create_accident_at.
C29_ObstacleFallback ==
    \A e \in SpawnFailures :
      /\ mode = "obstacle" =>
           \A step_idx \in 0..MaxTime, r \in RandomDraws, rdur \in MinDur..MaxDur :
             \A pick \in StepPicks(World, step_idx) :
               LET res == StepManager(World, step_idx, r, pick, rdur, e)
               IN  res.spawned # "" =>
                     /\ res.spawned = pick
                     /\ FallbackApplied(res.w, pick, rdur)
                     /\ res.w.active[pick].start_step = step_idx
      /\ \A l \in LaneIds, ignore \in BOOLEAN, m \in ModeArgs, d \in DurChoices :
           LET res == CreateAccidentAt(World, l, d[1], d[2], d[3], m, ignore, e)
               dur == IF d[1] THEN d[2] ELSE d[3]
           IN  (UseMode(m) = "obstacle" /\ ~CreateRefused(l, ignore)) =>
                 /\ res.ret
                 /\ FallbackApplied(res.w, l, dur)
                 /\ res.w.active[l].start_step = simTime

\* an obstacle-mode manager holds an accident made by the fallback after
\* traci.vehicle.add raised (the sequence number was used, no vehicle
\* exists), and both a tick and a create_accident_at call of this state
\* reach the obstacle branch on another lane
C29_Witness ==
    /\ mode = "obstacle"
    /\ veh_seq > 0
    /\ vehicles = {}
    /\ \E l \in DOMAIN active :
          /\ active[l].obstacle_veh_id = NoVeh
          /\ laneSpeed[l] = 0
          /\ laneAllowed[l] = VClasses \ UsedVClasses
    /\ \E pick \in StepPicks(World, simTime) :
          StepManager(World, simTime, 0, pick, MaxDur, "raise_add").spawned # ""
    /\ \E l \in LaneIds :
          CreateAccidentAt(World, l, FALSE, 0, MaxDur, "", FALSE, "raise_early").ret


\* C30: a tick of step() adds at most one accident and replaces none; the
\* added accident is on a lane of lane_candidates (an existing lane whose
\* edge is not internal) that had no active accident once the expired ones
\* were closed, it starts at the tick's step, and its duration lies between
\* min_duration_steps and max_duration_steps.
C30_TickCreatesOne ==
    \A step_idx \in 0..MaxTime, r \in RandomDraws, rdur \in MinDur..MaxDur :
      \A env \in EnvChoices(mode), pick \in StepPicks(World, step_idx) :
        LET w1 == CloseEach(World, ToClose(World, step_idx))
            res == StepManager(World, step_idx, r, pick, rdur, env)
            created == DOMAIN res.w.active \ DOMAIN w1.active
        IN  /\ Cardinality(created) <= 1
            /\ created = (IF res.spawned = "" THEN {} ELSE {res.spawned})
            /\ \A l \in DOMAIN w1.active :
                  l \in DOMAIN res.w.active /\ res.w.active[l] = w1.active[l]
            /\ \A l \in created :
                  /\ l \in LaneIds
                  /\ LaneExists(l)
                  /\ ~StartsWithColon(EdgeOf(l))
                  /\ res.w.active[l].lane_id = l
                  /\ res.w.active[l].start_step = step_idx
                  /\ res.w.active[l].end_step - res.w.active[l].start_step
                        \in MinDur..MaxDur

\* an accident is active and stays active through a tick that creates a
\* second one on the remaining candidate lane, and another tick of the same
\* state closes the first as expired and creates its successor
C30_Witness ==
    /\ active # << >>
    /\ \E step_idx \in 1..MaxTime :
         \E pick \in StepPicks(World, step_idx) :
           LET w1 == CloseEach(World, ToClose(World, step_idx))
           IN  /\ DOMAIN w1.active # {}
               /\ FreeLanes(w1) # LaneCandidates
               /\ StepManager(World, step_idx, 0, pick, MaxDur, "ok").spawned = pick
               /\ pick # ""
    /\ \E step_idx \in 1..MaxTime :
         \E pick \in StepPicks(World, step_idx) :
           /\ ToClose(World, step_idx) # {}
           /\ StepManager(World, step_idx, 0, pick, MinDur, "ok").spawned = pick
           /\ pick # ""


\* the ordinal of the most recent call that was a multiple of the period,
\* 0 when there has been none
LastRefresh(k) == WaitingCachePeriod * (k \div WaitingCachePeriod)

\* C31: after the k-th update_from_subscriptions call, the waiting_mean of
\* every edge is the mean waiting time the simulation had for that edge at
\* the most recent call whose ordinal is a multiple of the period, and the
\* cache holds the means of that call: it is recomputed at those calls and
\* at no other.  Before the first such call the cache is empty and the
\* reported waiting_mean is 0.
C31_WaitingMeanCached ==
    LET k == step_counter
        j == LastRefresh(k)
    IN  k > 0 =>
          /\ Len(wnow_hist) = k
          /\ waiting_cache = (IF j > 0
                              THEN [e \in DOMAIN EdgeLanes |-> wnow_hist[j][e]]
                              ELSE << >>)
          /\ \A e \in DOMAIN EdgeLanes :
                /\ e \in DOMAIN edge_stats
                /\ edge_stats[e].waiting_mean
                      = (IF j > 0 THEN wnow_hist[j][e] ELSE 0)

\* a call after the first recomputation that is not a multiple of the
\* period, at which the simulation's mean for an edge differs from the one
\* of the recomputation, and the reported value is the older one
C31_Witness ==
    /\ step_counter > WaitingCachePeriod
    /\ step_counter % WaitingCachePeriod # 0
    /\ \E e \in DOMAIN EdgeLanes :
          /\ wnow_hist[step_counter][e] # wnow_hist[LastRefresh(step_counter)][e]
          /\ edge_stats[e].waiting_mean = wnow_hist[LastRefresh(step_counter)][e]
          /\ edge_stats[e].waiting_mean # 0


-----------------------------------------------------------------------------
\* Properties of the phase duration adjustment, checked under PhaseSpec

\* the original statement of C32: every written duration lies between the
\* phase's minDur and its upper bound.  Violated by a phase whose maxDur is
\* positive and below its minDur: the written value is minDur.
C32_Original ==
    \A i \in 1..Len(phase_calls) :
        /\ phase_calls[i].duration >= phase_calls[i].phase.minDur
        /\ phase_calls[i].duration <= PhaseUpper(phase_calls[i].phase)

\* C32: the duration written by set_phase_duration_for_new_phase is
\* max(minDur, min(nominal + delta, upper)) with upper the phase's maxDur
\* when that is positive and max(nominal, minDur) otherwise; it is never
\* below minDur, it is never above upper when minDur <= upper, and it is
\* minDur when minDur > upper.
C32_PhaseDuration ==
    /\ \A ph \in PhaseDefs, d \in Range(LearnActions) :
         LET written == set_phase_duration_for_new_phase(ph, TRUE, d)
             total == written[1]
             upper == PhaseUpper(ph)
         IN  /\ written # None
             /\ total >= ph.minDur
             /\ ph.minDur <= upper =>
                   /\ total <= upper
                   /\ (ph.minDur <= ph.duration + d /\ ph.duration + d <= upper)
                         => total = ph.duration + d
                   /\ ph.duration + d < ph.minDur => total = ph.minDur
                   /\ ph.duration + d > upper => total = upper
             /\ ph.minDur > upper => total = ph.minDur
    /\ \A i \in 1..Len(phase_calls) :
         phase_calls[i].duration =
            set_phase_duration_for_new_phase(phase_calls[i].phase, TRUE,
                                             phase_calls[i].delta)[1]

\* a call has written a duration that the upper bound cut down, for a phase
\* without a configured maximum
C32_Witness ==
    \E i \in 1..Len(phase_calls) :
        LET c == phase_calls[i]
        IN  /\ c.phase.maxDur <= 0
            /\ c.delta > 0
            /\ c.duration = Max(c.phase.duration, c.phase.minDur)
            /\ c.duration < c.phase.duration + c.delta


-----------------------------------------------------------------------------
\* Properties of the bot's open commands, checked under BotSpec

\* the commands the bot answers for every user
OpenCommands == {"start", "help", "whoami", "health", "send_location_button"}

\* C33: a /start, /help, /whoami, /health or /send_location_button command
\* sent as a new message is answered, and the answer is no denial, whoever
\* the user is.  Violated: send_location_button denies a user outside the
\* trusted set.
C33_OpenCommandsAnswered ==
    (/\ bot_handled > 0
     /\ bot_last.update.kind = "message"
     /\ bot_last.update.text \in OpenCommands)
        => /\ ~bot_last.raised
           /\ bot_last.replies # << >>
           /\ \A i \in 1..Len(bot_last.replies) : bot_last.replies[i] # "denial"

\* what does hold: the four other open commands are answered without a
\* denial for every user
OtherOpenCommandsAnswered ==
    (/\ bot_handled > 0
     /\ bot_last.update.kind = "message"
     /\ bot_last.update.text \in OpenCommands \ {"send_location_button"})
        => /\ ~bot_last.raised
           /\ bot_last.replies # << >>
           /\ \A i \in 1..Len(bot_last.replies) : bot_last.replies[i] # "denial"


-----------------------------------------------------------------------------
\* Properties of the policy replay, checked under ReplaySpec

\* C34: once the replay's agent has loaded its table, every value of a
\* state and action present in the loaded table stays what it was, whatever
\* states the agent is asked to choose in.
C34_LoadedValuesKept ==
    q_ret.op # "none" =>
        \A st \in DOMAIN LoadedTable :
            /\ st \in DOMAIN q_table
            /\ \A a \in DOMAIN LoadedTable[st] :
                  /\ a \in DOMAIN q_table[st]
                  /\ q_table[st][a] = LoadedTable[st][a]

\* the agent has chosen in a state of the loaded table and in a state that
\* was not in it, for which the table gained a row
C34_Witness ==
    /\ QFile \in DOMAIN disk
    /\ q_ret.op = "choose_action"
    /\ q_ret.state \in DOMAIN LoadedTable
    /\ DOMAIN q_table # DOMAIN LoadedTable

\* C35: every action choose_action returns is a member of the agent's
\* configured action list.  Violated: the greedy branch returns a key of
\* the loaded row, and the row was written with another action list.
C35_ChoiceInActionList ==
    q_ret.op = "choose_action" => q_ret.value \in Range(agent.actions)

\* what does hold: a choice made in a state whose row the agent created
\* itself is a member of its action list
ChoiceInOwnRow ==
    (q_ret.op = "choose_action" /\ q_ret.state \notin DOMAIN LoadedTable)
        => q_ret.value \in Range(agent.actions)


\* Properties of the agent part of the training step loop, checked under
\* TrainSpec

\* the choices the agent made before step st of episode e
ChoicesBefore(e, st) ==
    {i \in 1..Len(phase_calls) :
        phase_calls[i].episode = e /\ phase_calls[i].step < st}

\* C36: an update_q_table call of a step is made only after the agent has
\* chosen an action at an earlier step of the same episode, and the state
\* and action it is given are those of the latest such choice, so never a
\* pair of an earlier episode
C36_UpdateAfterChoice ==
    q_ret.op = "update_q_table" =>
        /\ ChoicesBefore(q_ret.episode, q_ret.step) # {}
        /\ LET i == CHOOSE j \in ChoicesBefore(q_ret.episode, q_ret.step) :
                        \A l \in ChoicesBefore(q_ret.episode, q_ret.step) : l <= j
           IN  /\ phase_calls[i].state = q_ret.state
               /\ phase_calls[i].delta = q_ret.action

\* a step of a later episode skipped the update although the episode before
\* had made a choice, and a later step of that episode updated
C36_Witness ==
    /\ q_ret.op = "update_q_table"
    /\ q_ret.episode >= 1
    /\ q_ret.step >= 1
    /\ \E i \in 1..Len(phase_calls) : phase_calls[i].episode < q_ret.episode

\* the first step of a later episode makes no update, whatever the episode
\* before chose
FirstStepSkipsUpdate ==
    (learn_pc = "steps" /\ current_step = 1) => q_ret.op = "no update"


\* Properties of the accidents of the interactive session, checked under
\* SessionSpec

\* the lanes that get an accident in a step
LanesAdded == DOMAIN active' \ DOMAIN active

\* C37: with prob_per_step 0 the manager's tick creates no accident: a step
\* of the interactive session that adds an active accident is a step of
\* process_commands that takes a spawn command from the head of the queue and
\* hands it to create_accident_at, and it adds one accident
C37_AccidentsFromCommands ==
    [][(prob = 0 /\ LanesAdded # {}) =>
            /\ loop_pc = "process"
            /\ command_queue # << >>
            /\ QueueGet(command_queue).item.cmd.type = "SpawnCmd"
            /\ applied' = Append(applied, QueueGet(command_queue).item.seq)
            /\ Cardinality(LanesAdded) = 1]_vars

\* a spawn command has been applied and its accident has lived through a
\* tick of the manager, which had a free lane to pick and created nothing
C37_Witness ==
    /\ prob = 0
    /\ step >= 1
    /\ loop_pc = "process"
    /\ Cardinality(DOMAIN active) = 1
    /\ Len(applied) = 1
    /\ FreeLanes(World) # {}


\* Properties of the ceiling override, checked under Spec

\* the number of active accidents of a World value
Count(w) == Cardinality(DOMAIN w.active)

\* what create_accident_at calls do about the ceiling: a call that does not
\* override it adds nothing while the count is at or above max_concurrent, a
\* call that overrides it adds an accident on a free candidate lane whatever
\* the count is, and no call removes an accident
CreateAndCeiling ==
    \A l \in LaneIds, ignore \in BOOLEAN, m \in {"", "lane_block"} :
      \A d \in DurChoices, e \in EnvChoices(UseMode(m)) :
        LET res == CreateAccidentAt(World, l, d[1], d[2], d[3], m, ignore, e)
        IN  /\ DOMAIN active \subseteq DOMAIN res.w.active
            /\ ((~ignore) /\ Count(World) >= max_concurrent) =>
                    (~res.ret) /\ res.w.active = active
            /\ (ignore /\ l \in LaneCandidates \ DOMAIN active) =>
                    /\ res.ret
                    /\ DOMAIN res.w.active = DOMAIN active \cup {l}

\* a tick of step() removes only accidents whose end_step its index has
\* reached
TickRemovesExpired ==
    \A step_idx \in 0..MaxTime, r \in RandomDraws, rdur \in MinDur..MaxDur :
      \A env \in EnvChoices(mode), pick \in StepPicks(World, step_idx) :
        DOMAIN active \ DOMAIN StepManager(World, step_idx, r, pick, rdur, env).w.active
            \subseteq ToClose(World, step_idx)

\* C38 as stated: a tick of step() adds no accident while the count of active
\* accidents at the call is at or above max_concurrent.  Violated: the tick
\* closes the expired accidents before it tests the ceiling, and one that
\* brings the count below max_concurrent by expiry goes on to create
C38_Original ==
    /\ CreateAndCeiling
    /\ TickRemovesExpired
    /\ \A step_idx \in 0..MaxTime, r \in RandomDraws, rdur \in MinDur..MaxDur :
         \A env \in EnvChoices(mode), pick \in StepPicks(World, step_idx) :
           Count(World) >= max_concurrent =>
               StepManager(World, step_idx, r, pick, rdur, env).spawned = ""

\* C38: a create_accident_at call that overrides the ceiling adds its
\* accident whatever the count, so the count can exceed max_concurrent; a
\* call that does not override adds nothing while the count is at or above
\* max_concurrent; a tick of step() adds nothing when the count left after
\* it closed the expired accidents is at or above max_concurrent; creations
\* remove nothing and a tick removes only expired accidents
C38_CeilingOverride ==
    /\ CreateAndCeiling
    /\ TickRemovesExpired
    /\ \A step_idx \in 0..MaxTime, r \in RandomDraws, rdur \in MinDur..MaxDur :
         \A env \in EnvChoices(mode), pick \in StepPicks(World, step_idx) :
           LET w1 == CloseEach(World, ToClose(World, step_idx))
               res == StepManager(World, step_idx, r, pick, rdur, env)
           IN  Count(w1) >= max_concurrent =>
                   res.spawned = "" /\ res.w = w1

\* an overriding call has raised the count above max_concurrent, and a tick
\* whose index no accident's end_step has reached finds the ceiling exceeded
C38_Witness ==
    /\ everOverride
    /\ Count(World) > max_concurrent
    /\ max_concurrent >= 1
    /\ \E step_idx \in 0..MaxTime : ToClose(World, step_idx) = {}

=============================================================================
